---- MODULE Spec2Model ----
(***************************************************************************)
(* Overseer: the decision / orchestration kernel.                          *)
(*                                                                         *)
(*   FirewallEngine (PolicyStore, Sandbox, parse_decision, evaluate)       *)
(*   HumanGate      (parse_intent)                                         *)
(*   PerceptionBus  (record_confidence, record_approval)                   *)
(*   ExecutionService.run_loop  (the step loop, checkpoints, cancel)       *)
(*   OverseerApp    (start / stop / restart / restored-panel responses)    *)
(*                                                                         *)
(* Specifications:                                                         *)
(*   Spec        one Task driven by the TUI and one run_loop coroutine     *)
(*   SpecParse   parse_decision applied to bounded response texts          *)
(*   SpecPolicy  PolicyStore under override_user_permission calls          *)
(*                                                                         *)
(* Data representation                                                     *)
(*   - a confidence score is an integer percentage (0.3 is 30)             *)
(*   - a path string is the sequence of its "/"-separated segments, so     *)
(*     "../x" is <<"..", "x">>, "/x" is <<"", "x">> and "x/" is <<"x","">> *)
(*   - a response text is what the two regular expressions of              *)
(*     parse_decision find in it and what json.loads / pydantic make of    *)
(*     the matched substrings                                              *)
(*   - a human reply text is the sequence of its words                     *)
(***************************************************************************)
EXTENDS Integers, Sequences, FiniteSets, TLC

VARIABLES
    \* ---- persistent Task (CognitiveObject row and its Execution rows)
    status,             \* CognitiveObject.status
    step_count,         \* context["step_count"]
    cp,                 \* context["_checkpoint"] or NoCheckpoint
    has_plan,           \* context["plan"] is present
    confirm_recorded,   \* accumulated_findings holds a confirm-complete note
    execs,              \* Execution rows in creation order: [seq, status]
    \* ---- run_loop coroutine (locals of ExecutionService.run_loop)
    pc,                 \* position of the coroutine
    step_number,
    resume_cp,          \* _cp, what _restore_checkpoint returned
    wrap_up_injected,
    decision,           \* the step's LLMDecision (after evaluate)
    verdict,            \* the step's FirewallVerdict.action
    tc_idx,             \* index of the tool call being dispatched
    needs_approval,     \* result of check_tool_permission for that call
    human,              \* the last human response received, or NoResp
    exec_tc,            \* the ToolCall handed to tools.execute
    \* ---- kernel objects of the running ExecutionService
    conf_window,        \* PerceptionBus confidence_window
    consecutive_rejects,\* PerceptionBus consecutive_rejects
    approvals_recorded, \* PerceptionBus holds at least one approval record
    loop_state,         \* FirewallEngine loop-detection state
    consecutive_stops,  \* HumanGate._consecutive_stops
    admin_permissions,  \* PolicyStore._admin_permissions
    user_overrides,     \* PolicyStore._user_overrides
    mcp_tools,          \* PolicyStore._mcp_tools
    \* ---- OverseerApp
    ui_service,         \* co_id in _execution_services
    ui_pending_hitl,    \* _pending_hitl[co_id] or NoReq
    ui_pending_tool,    \* _pending_tool_confirm[co_id] or NoReq
    runs,               \* number of run_loop coroutines started so far
    orphan_waits,       \* requests awaited by run_loop coroutines that a later
                        \* action_start_co replaced in the application's maps
    unanswered,         \* history: the request a cancelled human wait left open,
                        \* until a human answers it
    exit_kind,          \* history: how the last run_loop coroutine ended
    cleanup_done,       \* it ran tools.disconnect() and llm.close()
    \* ---- parse_decision harness
    pd_text,
    pd_result,
    \* ---- HumanGate on its own: _event, _response, the coroutine in
    \* wait_for_human, and the history of responses provided and returned
    gate,
    \* ---- parse_intent on its own: the responses parsed so far and their intents
    intent_log,
    \* ---- FirewallEngine.evaluate on its own: the evaluations made so far
    fw_log,
    \* ---- PerceptionBus._last_tool_outputs, and the history of the calls made
    \* in the specifications of record_confidence, should_escalate,
    \* detect_repeat and the checkpoint round trip
    last_tool_outputs,
    call_log

taskVars == <<status, step_count, cp, has_plan, confirm_recorded, execs>>
loopVars == <<pc, step_number, resume_cp, wrap_up_injected, decision, verdict,
              tc_idx, needs_approval, human, exec_tc>>
kernelVars == <<conf_window, consecutive_rejects, approvals_recorded, loop_state,
                consecutive_stops>>
policyVars == <<admin_permissions, user_overrides, mcp_tools>>
uiVars == <<ui_service, ui_pending_hitl, ui_pending_tool, runs, orphan_waits,
            unanswered>>
exitVars == <<exit_kind, cleanup_done>>
parseVars == <<pd_text, pd_result>>
\* the variables of the component specifications, at rest in the loop
busVars == <<last_tool_outputs, call_log>>
harnessVars == <<parseVars, gate, intent_log, fw_log, busVars>>
vars == <<taskVars, loopVars, kernelVars, policyVars, uiVars, exitVars, harnessVars>>

----------------------------------------------------------------------------
(* Bounds of the model *)

\* config.execution.max_steps of the modelled configuration
MaxSteps == 1
\* Execution rows created over the Task's life
MaxExecs == 3
\* run_loop coroutines started over the Task's life
MaxRuns == 2
\* Execution rows and run_loop coroutines together
MaxWork == 5
\* config.reflection.interval of the modelled configuration
ReflectionInterval == 2

(* Program constants *)

LowConfidenceWindow == 3
LowConfidenceThreshold == 30
AutoEscalateThreshold == 3
ConfidenceWindowSize == 10
\* the split point of _check_loop's dynamic thresholds (avg_conf >= 0.5)
AvgConfidenceSplit == 50

Absent == "absent"

----------------------------------------------------------------------------
(* Small helpers on sequences and functions *)

Range(s) == {s[i] : i \in 1..Len(s)}

RECURSIVE SumSeq(_)
SumSeq(s) == IF s = <<>> THEN 0 ELSE s[1] + SumSeq(Tail(s))

LastN(s, n) == IF Len(s) <= n THEN s ELSE SubSeq(s, Len(s) - n + 1, Len(s))

Max2(a, b) == IF a >= b THEN a ELSE b

----------------------------------------------------------------------------
(* PolicyStore *)

Tools == {"file_write", "file_read", "search"}
Levels == {"auto", "notify", "confirm", "approve"}
PolicyKeys == Tools \cup {"default", "mcp_default"}

PERMISSION_ORDER(level) ==
    CASE level = "auto" -> 0
      [] level = "notify" -> 1
      [] level = "confirm" -> 2
      [] level = "approve" -> 3
      [] OTHER -> 0

\* ToolPermission(level): the enum constructor, ValueError on anything else
IsToolPermission(level) == level \in Levels

\* dict.get(key, default) on a dict held as a function
DictGet(d, key, default) == IF key \in DOMAIN d THEN d[key] ELSE default

resolve_admin(perms, mcp, tool_name) ==
    LET level == IF tool_name \in DOMAIN perms THEN perms[tool_name]
                 ELSE IF tool_name \in mcp THEN DictGet(perms, "mcp_default", "auto")
                 ELSE DictGet(perms, "default", "confirm")
    IN IF IsToolPermission(level) THEN level ELSE "confirm"

resolve_user(overrides, tool_name) ==
    IF tool_name \notin DOMAIN overrides THEN Absent
    ELSE IF IsToolPermission(overrides[tool_name]) THEN overrides[tool_name]
    ELSE Absent

get_permission_user_wins(perms, overrides, mcp, tool_name) ==
    LET admin_level == resolve_admin(perms, mcp, tool_name)
        user_level == resolve_user(overrides, tool_name)
    IN IF user_level # Absent THEN user_level ELSE admin_level

get_permission(perms, overrides, mcp, tool_name) ==
    LET admin_level == resolve_admin(perms, mcp, tool_name)
        user_level == resolve_user(overrides, tool_name)
    IN IF user_level # Absent
          /\ PERMISSION_ORDER(user_level) > PERMISSION_ORDER(admin_level)
       THEN user_level
       ELSE admin_level

override_user_permission(overrides, tool_name, level) ==
    [k \in DOMAIN overrides \cup {tool_name} |->
        IF k = tool_name THEN level ELSE overrides[k]]

----------------------------------------------------------------------------
(* Sandbox *)

PATH_KEYS == {"path", "file_path", "filepath", "filename",
              "outputPath", "output_path", "savePath", "save_path"}

\* config.context.output_dir, as path segments
OutputDir == <<"data", "output">>

\* An argument value: a str (its path segments) or a value of another type.
StrVal(segs) == [is_str |-> TRUE, segs |-> segs]
NotAStr == [is_str |-> FALSE, segs |-> <<>>]
IsStr(v) == v.is_str

\* pathlib: Path(s).parts without the anchor; empty and "." segments vanish
PathParts(s) == SelectSeq(s, LAMBDA seg : seg # "" /\ seg # ".")

\* pathlib: Path(s).name, "" when there is no part besides the anchor
PathName(s) ==
    LET parts == PathParts(s)
    IN IF parts = <<>> THEN "" ELSE parts[Len(parts)]

\* pathlib: str(output_dir / name); joining "" gives output_dir itself
JoinOutputDir(name) == IF name = "" THEN OutputDir ELSE Append(OutputDir, name)

\* the rewritten value of one path-like str argument
rewrite_value(v) == StrVal(JoinOutputDir(PathName(v.segs)))

rewrite_path_args(args) ==
    [k \in DOMAIN args |->
        IF k \in PATH_KEYS /\ IsStr(args[k])
        THEN rewrite_value(args[k])
        ELSE args[k]]

\* The location a relative path names: ".." steps to the parent directory.
\* Escaped is TRUE when a ".." climbs above the directory the path starts in.
RECURSIVE ResolveFrom(_, _)
ResolveFrom(stack, rest) ==
    IF rest = <<>> THEN [escaped |-> FALSE, at |-> stack]
    ELSE IF rest[1] = ".."
         THEN IF stack = <<>> THEN [escaped |-> TRUE, at |-> <<>>]
              ELSE ResolveFrom(SubSeq(stack, 1, Len(stack) - 1), Tail(rest))
         ELSE ResolveFrom(Append(stack, rest[1]), Tail(rest))

IsPrefix(p, s) == Len(p) <= Len(s) /\ SubSeq(s, 1, Len(p)) = p

\* The location of path p is the managed output directory or below it.
InsideOutputDir(p) ==
    LET r == ResolveFrom(<<>>, p)
    IN ~r.escaped /\ IsPrefix(OutputDir, r.at)

\* Sandbox.is_path_readable with readable_paths ["output/", "."]: a relative
\* path is readable when it stays inside the working directory; an absolute
\* path (leading empty segment) lies elsewhere.
is_path_readable(path) ==
    /\ ~(Len(path) > 1 /\ path[1] = "")
    /\ ~ResolveFrom(<<>>, PathParts(path)).escaped

\* needs_human_approval without the escalation of reads outside readable_paths
needs_human_approval_nominal(perms, overrides, mcp, tool_name, args) ==
    get_permission(perms, overrides, mcp, tool_name) \in {"confirm", "approve"}

needs_human_approval(perms, overrides, mcp, tool_name, args) ==
    LET perm == get_permission(perms, overrides, mcp, tool_name)
    IN IF /\ perm \in {"auto", "notify"}
          /\ tool_name \in {"file_read", "file_list"}
          /\ "path" \in DOMAIN args
          /\ IsStr(args["path"]) /\ args["path"].segs # <<>>
          /\ ~is_path_readable(args["path"].segs)
       THEN TRUE
       ELSE perm \in {"confirm", "approve"}

check_tool_permission(perms, overrides, mcp, tc) ==
    needs_human_approval(perms, overrides, mcp, tc.tool, tc.args)

sandbox_args(tc) == [tool |-> tc.tool, args |-> rewrite_path_args(tc.args)]

----------------------------------------------------------------------------
(* LLMDecision and fail-safe parsing *)

\* LLMDecision(**data) with ToolCall / HelpRequest normalisation: every field
\* the dict leaves out takes the model's default.
normalize_decision(data) ==
    [tool_calls       |-> DictGet(data, "tool_calls", <<>>),
     human_required   |-> DictGet(data, "human_required", FALSE),
     human_reason     |-> DictGet(data, "human_reason", "none"),
     options          |-> DictGet(data, "options", "none"),
     task_complete    |-> DictGet(data, "task_complete", FALSE),
     confidence       |-> DictGet(data, "confidence", 50),
     help_request     |-> DictGet(data, "help_request", FALSE),
     subtask_complete |-> DictGet(data, "subtask_complete", FALSE)]

\* the decision returned when nothing could be parsed
FailSafeDecision ==
    [tool_calls       |-> <<>>,
     human_required   |-> TRUE,
     human_reason     |-> "clarify",
     options          |-> "continue_or_abort",
     task_complete    |-> FALSE,
     confidence       |-> 50,
     help_request     |-> FALSE,
     subtask_complete |-> FALSE]

\* LLMDecision() with every default, the value of the `decision` local before
\* any step has parsed one
DefaultDecision == normalize_decision(<<>>)

\* A matched substring is of one kind:
\*   "none"        the regular expression found nothing
\*   "bad_json"    json.loads raises JSONDecodeError on it
\*   "bad_fields"  it is JSON, LLMDecision(**data) raises (validation)
\*   "ok"          it decodes and validates
MatchKinds == {"none", "bad_json", "bad_fields", "ok"}

\* json.loads followed by _normalize_decision on one matched substring
decode_block(kind, data) ==
    CASE kind = "bad_json"   -> [exc |-> "JSONDecodeError", value |-> FailSafeDecision]
      [] kind = "bad_fields" -> [exc |-> "ValidationError", value |-> FailSafeDecision]
      [] OTHER               -> [exc |-> "none", value |-> normalize_decision(data)]

\* parse_decision whose except clauses name json.JSONDecodeError alone
parse_decision_narrow_except(text) ==
    LET first == decode_block(text.fence, text.fence_data)
        second == decode_block(text.flat, text.flat_data)
    IN IF text.fence # "none" /\ first.exc = "none"
       THEN [raised |-> FALSE, decision |-> first.value]
       ELSE IF text.fence # "none" /\ first.exc # "JSONDecodeError"
       THEN [raised |-> TRUE, decision |-> FailSafeDecision]
       ELSE IF text.flat # "none" /\ second.exc = "none"
       THEN [raised |-> FALSE, decision |-> second.value]
       ELSE IF text.flat # "none" /\ second.exc # "JSONDecodeError"
       THEN [raised |-> TRUE, decision |-> FailSafeDecision]
       ELSE [raised |-> FALSE, decision |-> FailSafeDecision]

\* text.fence / fence_data: the first ```decision fenced block
\* text.flat / flat_data: the first brace-free {... "task_complete" ...} object
parse_decision(text) ==
    LET first == decode_block(text.fence, text.fence_data)
        second == decode_block(text.flat, text.flat_data)
    IN IF text.fence # "none" /\ first.exc = "none"
       THEN [raised |-> FALSE, decision |-> first.value]
       ELSE IF text.flat # "none" /\ second.exc = "none"
       THEN [raised |-> FALSE, decision |-> second.value]
       ELSE [raised |-> FALSE, decision |-> FailSafeDecision]

----------------------------------------------------------------------------
(* PerceptionBus *)

\* record_confidence without the cut to the last ten values
record_confidence_unbounded(window, confidence) == Append(window, confidence)

record_confidence(window, confidence) ==
    LastN(Append(window, confidence), ConfidenceWindowSize)

record_approval(rejects, tool, approved) ==
    [rejects EXCEPT ![tool] = IF approved THEN 0 ELSE @ + 1]

\* str.strip() on a text held as words and " " characters
RECURSIVE lstrip(_)
lstrip(text) ==
    IF text # <<>> /\ text[1] = " " THEN lstrip(Tail(text)) ELSE text

RECURSIVE rstrip(_)
rstrip(text) ==
    IF text # <<>> /\ text[Len(text)] = " "
    THEN rstrip(SubSeq(text, 1, Len(text) - 1)) ELSE text

strip(text) == rstrip(lstrip(text))

\* the quoted tokens of json.dumps(result): the keys and the str values
dumps_quoted(result) ==
    DOMAIN result \cup {result[k].segs[1] : k \in {j \in DOMAIN result :
                                IsStr(result[j]) /\ Len(result[j].segs) = 1}}

\* classify_result taking the output as it is, without strip()
classify_result_unstripped(tool, result) ==
    LET status_value == IF "status" \in DOMAIN result THEN result["status"] ELSE StrVal(<<>>)
    IN IF status_value = StrVal(<<"error">>) THEN "error"
       ELSE IF status_value = StrVal(<<"ok">>)
       THEN LET output == IF "output" \in DOMAIN result THEN result["output"]
                          ELSE IF "content" \in DOMAIN result THEN result["content"]
                          ELSE StrVal(<<>>)
            IN IF ~IsStr(output) \/ output.segs = <<>> THEN "empty" ELSE "success"
       ELSE IF "error" \in dumps_quoted(result) THEN "error"
       ELSE "partial"

\* classify_result; a value is a str or None
classify_result(tool, result) ==
    LET status_value == IF "status" \in DOMAIN result THEN result["status"] ELSE StrVal(<<>>)
    IN IF status_value = StrVal(<<"error">>) THEN "error"
       ELSE IF status_value = StrVal(<<"ok">>)
       THEN LET output == IF "output" \in DOMAIN result THEN result["output"]
                          ELSE IF "content" \in DOMAIN result THEN result["content"]
                          ELSE StrVal(<<>>)
            IN IF \/ ~IsStr(output) \/ output.segs = <<>>
                  \/ strip(output.segs) = <<>>
               THEN "empty" ELSE "success"
       ELSE IF "error" \in dumps_quoted(result) THEN "error"
       ELSE "partial"

\* tool_args is a dict: key/value pairs in insertion order, keys distinct.
\* The order json.dumps(..., sort_keys=True) puts the keys in
ArgKeyRank(k) ==
    CASE k = "path" -> 1
      [] k = "query" -> 2
      [] OTHER -> 3

RECURSIVE InsertByKey(_, _)
InsertByKey(pair, sorted) ==
    IF sorted = <<>> THEN <<pair>>
    ELSE IF ArgKeyRank(pair[1]) <= ArgKeyRank(sorted[1][1]) THEN <<pair>> \o sorted
    ELSE <<sorted[1]>> \o InsertByKey(pair, Tail(sorted))

RECURSIVE sort_keys(_)
sort_keys(tool_args) ==
    IF tool_args = <<>> THEN <<>>
    ELSE InsertByKey(tool_args[1], sort_keys(Tail(tool_args)))

\* f"{tool}:{json.dumps(tool_args, sort_keys=True)}", or the tool name alone
\* when tool_args is None or empty
tool_key(tool, tool_args) == [tool |-> tool, args |-> sort_keys(tool_args)]

\* detect_repeat keyed by the tool name alone
detect_repeat_by_tool(outputs, tool, result, tool_args) ==
    LET key == [tool |-> tool, args |-> <<>>]
        prev_output == IF key \in DOMAIN outputs THEN outputs[key] ELSE "None"
    IN [outputs |-> [k \in DOMAIN outputs \cup {key} |->
                        IF k = key THEN result ELSE outputs[k]],
        note |-> IF prev_output = "None" THEN "None"
                 ELSE IF result = prev_output THEN "SAME" ELSE "CHANGED"]

\* detect_repeat: the diff note and the cache with the new output stored
detect_repeat(outputs, tool, result, tool_args) ==
    LET key == tool_key(tool, tool_args)
        prev_output == IF key \in DOMAIN outputs THEN outputs[key] ELSE "None"
    IN [outputs |-> [k \in DOMAIN outputs \cup {key} |->
                        IF k = key THEN result ELSE outputs[k]],
        note |-> IF prev_output = "None" THEN "None"
                 ELSE IF result = prev_output THEN "SAME" ELSE "CHANGED"]

\* get_tool_outputs_snapshot and restore_tool_outputs: dict(...) copies
get_tool_outputs_snapshot(outputs) == [k \in DOMAIN outputs |-> outputs[k]]
restore_tool_outputs(outputs) == [k \in DOMAIN outputs |-> outputs[k]]

----------------------------------------------------------------------------
(* FirewallEngine.evaluate *)

InitLoopState ==
    [last_tool_sig |-> <<>>, repeat_count |-> 0,
     last_tool_names |-> <<>>, name_repeat_count |-> 0]

ToolRank(tool) ==
    CASE tool = "file_read" -> 1
      [] tool = "file_write" -> 2
      [] OTHER -> 3

RECURSIVE InsertSorted(_, _)
InsertSorted(name, sorted) ==
    IF sorted = <<>> THEN <<name>>
    ELSE IF ToolRank(name) <= ToolRank(sorted[1]) THEN <<name>> \o sorted
    ELSE <<sorted[1]>> \o InsertSorted(name, Tail(sorted))

\* sorted(tc.tool for tc in tool_calls)
RECURSIVE SortedToolNames(_)
SortedToolNames(tcs) ==
    IF tcs = <<>> THEN <<>>
    ELSE InsertSorted(tcs[1].tool, SortedToolNames(Tail(tcs)))

\* _check_loop with the thresholds 2 and 3 whatever the confidence
check_loop_fixed_thresholds(dec, ls, window) ==
    LET tool_sig == dec.tool_calls
        repeat_count == IF tool_sig = ls.last_tool_sig THEN ls.repeat_count + 1 ELSE 0
        tool_names == SortedToolNames(dec.tool_calls)
        name_repeat_count == IF tool_names = ls.last_tool_names
                             THEN ls.name_repeat_count + 1 ELSE 0
        is_loop == repeat_count >= 2 \/ name_repeat_count >= 3
    IN [is_loop |-> is_loop,
        loop_state |-> [last_tool_sig |-> tool_sig, repeat_count |-> repeat_count,
                        last_tool_names |-> tool_names,
                        name_repeat_count |-> name_repeat_count],
        decision |-> IF is_loop
                     THEN [dec EXCEPT !.tool_calls = <<>>,
                                           !.human_required = TRUE,
                                           !.human_reason = "loop",
                                           !.options = "retry_or_abort"]
                     ELSE dec]

\* _check_loop starting over after it reported a loop
check_loop_reset_on_trip(dec, ls, window) ==
    LET tool_sig == dec.tool_calls
        repeat_count == IF tool_sig = ls.last_tool_sig THEN ls.repeat_count + 1 ELSE 0
        tool_names == SortedToolNames(dec.tool_calls)
        name_repeat_count == IF tool_names = ls.last_tool_names
                             THEN ls.name_repeat_count + 1 ELSE 0
        confident == IF window = <<>> THEN TRUE
                     ELSE SumSeq(window) >= AvgConfidenceSplit * Len(window)
        is_loop == repeat_count >= (IF confident THEN 2 ELSE 1)
                   \/ name_repeat_count >= (IF confident THEN 3 ELSE 2)
    IN [is_loop |-> is_loop,
        loop_state |-> IF is_loop THEN InitLoopState
                       ELSE [last_tool_sig |-> tool_sig, repeat_count |-> repeat_count,
                             last_tool_names |-> tool_names,
                             name_repeat_count |-> name_repeat_count],
        decision |-> IF is_loop
                     THEN [dec EXCEPT !.tool_calls = <<>>,
                                           !.human_required = TRUE,
                                           !.human_reason = "loop",
                                           !.options = "retry_or_abort"]
                     ELSE dec]

check_loop(dec, ls, window) ==
    LET tool_sig == dec.tool_calls
        same_sig == tool_sig = ls.last_tool_sig
        repeat_count == IF same_sig THEN ls.repeat_count + 1 ELSE 0
        tool_names == SortedToolNames(dec.tool_calls)
        same_names == tool_names = ls.last_tool_names
        name_repeat_count == IF same_names THEN ls.name_repeat_count + 1 ELSE 0
        new_ls == [last_tool_sig |-> tool_sig, repeat_count |-> repeat_count,
                   last_tool_names |-> tool_names,
                   name_repeat_count |-> name_repeat_count]
        \* avg_conf >= 0.5, with avg_conf = 0.5 for an empty window
        confident == IF window = <<>> THEN TRUE
                     ELSE SumSeq(window) >= AvgConfidenceSplit * Len(window)
        exact_threshold == IF confident THEN 2 ELSE 1
        name_threshold == IF confident THEN 3 ELSE 2
        is_loop == repeat_count >= exact_threshold
                   \/ name_repeat_count >= name_threshold
    IN [is_loop |-> is_loop,
        loop_state |-> new_ls,
        decision |-> IF is_loop
                     THEN [dec EXCEPT !.tool_calls = <<>>,
                                           !.human_required = TRUE,
                                           !.human_reason = "loop",
                                           !.options = "retry_or_abort"]
                     ELSE dec]

\* evaluate without layer 2, the confidence circuit-breaker
evaluate_no_breaker(decision0, ls, window) ==
    LET d1 == IF decision0.help_request /\ ~decision0.human_required
              THEN [decision0 EXCEPT !.human_required = TRUE,
                                     !.human_reason = "help",
                                     !.options = "skip_or_abort"]
              ELSE decision0
        lp == IF d1.tool_calls # <<>> THEN check_loop(d1, ls, window)
              ELSE [is_loop |-> FALSE, loop_state |-> ls, decision |-> d1]
    IN [action |-> IF lp.is_loop \/ lp.decision.human_required
                   THEN "needs_human" ELSE "allow",
        decision |-> lp.decision,
        loop_state |-> lp.loop_state]

\* evaluate with a loop detection that starts over on a decision without
\* tool calls
evaluate_tool_free_resets(decision0, ls, window) ==
    LET d1 == IF decision0.help_request /\ ~decision0.human_required
              THEN [decision0 EXCEPT !.human_required = TRUE,
                                     !.human_reason = "help",
                                     !.options = "skip_or_abort"]
              ELSE decision0
        recent == LastN(window, LowConfidenceWindow)
        breaker == /\ Len(window) >= LowConfidenceWindow
                   /\ \A i \in 1..Len(recent) : recent[i] < LowConfidenceThreshold
                   /\ ~d1.human_required
                   /\ ~d1.task_complete
        d2 == IF breaker
              THEN [d1 EXCEPT !.human_required = TRUE,
                              !.human_reason = "low_confidence",
                              !.options = "change_or_abort"]
              ELSE d1
        lp == IF d2.tool_calls # <<>> THEN check_loop(d2, ls, window)
              ELSE [is_loop |-> FALSE, loop_state |-> InitLoopState, decision |-> d2]
    IN [action |-> IF lp.is_loop \/ lp.decision.human_required
                   THEN "needs_human" ELSE "allow",
        decision |-> lp.decision,
        loop_state |-> lp.loop_state]

evaluate(decision0, ls, window) ==
    LET \* Layer 1: help request
        d1 == IF decision0.help_request /\ ~decision0.human_required
              THEN [decision0 EXCEPT !.human_required = TRUE,
                                     !.human_reason = "help",
                                     !.options = "skip_or_abort"]
              ELSE decision0
        \* Layer 2: confidence circuit-breaker
        recent == LastN(window, LowConfidenceWindow)
        breaker == /\ Len(window) >= LowConfidenceWindow
                   /\ \A i \in 1..Len(recent) : recent[i] < LowConfidenceThreshold
                   /\ ~d1.human_required
                   /\ ~d1.task_complete
        d2 == IF breaker
              THEN [d1 EXCEPT !.human_required = TRUE,
                              !.human_reason = "low_confidence",
                              !.options = "change_or_abort"]
              ELSE d1
        \* Layer 3: loop detection
        lp == IF d2.tool_calls # <<>> THEN check_loop(d2, ls, window)
              ELSE [is_loop |-> FALSE, loop_state |-> ls, decision |-> d2]
    IN [action |-> IF lp.is_loop \/ lp.decision.human_required
                   THEN "needs_human" ELSE "allow",
        decision |-> lp.decision,
        loop_state |-> lp.loop_state]

\* should_escalate firing only above the threshold
should_escalate_above(rejects, overrides, tool) ==
    IF rejects[tool] > AutoEscalateThreshold
    THEN [result |-> "approve",
          user_overrides |-> override_user_permission(overrides, tool, "approve")]
    ELSE [result |-> "None", user_overrides |-> overrides]

\* should_escalate: the value returned and the user layer of the PolicyStore
\* after the call; the counters of the PerceptionBus are only read
should_escalate(rejects, overrides, tool) ==
    IF rejects[tool] >= AutoEscalateThreshold
    THEN [result |-> "approve",
          user_overrides |-> override_user_permission(overrides, tool, "approve")]
    ELSE [result |-> "None", user_overrides |-> overrides]

----------------------------------------------------------------------------
(* HumanGate *)

\* the English keywords; the Chinese ones are matched the same way
ABORT_KEYWORDS == {"abort", "stop", "quit", "exit", "end", "cancel", "finish",
                   "done", "enough", "terminate"}
CONFIRM_COMPLETE_KEYWORDS == {"confirm", "done", "lgtm"}
IMPLICIT_STOP_CUES == {"stop", "quit", "enough", "end", "done",
                       "finish", "cancel", "exit", "terminate"}

\* text_val in keywords: the whole text is the keyword
TextIs(text, keywords) == Len(text) = 1 /\ text[1] \in keywords
\* any(kw in user_text for kw in cues)
TextHas(text, cues) == \E i \in 1..Len(text) : text[i] \in cues

\* parse_intent without the reset of the counter on a non-abort response
parse_intent_no_reset(h, stops) ==
    LET is_abort == \/ h.decision \in ABORT_KEYWORDS
                    \/ (h.decision = "feedback" /\ TextIs(h.text, ABORT_KEYWORDS))
    IN IF is_abort
       THEN [intent |-> IF stops + 1 >= 2 THEN "force_abort" ELSE "abort",
             stops |-> stops + 1]
       ELSE IF \/ h.decision \in CONFIRM_COMPLETE_KEYWORDS
               \/ (h.decision = "feedback" /\ TextIs(h.text, CONFIRM_COMPLETE_KEYWORDS))
       THEN [intent |-> "confirm_complete", stops |-> stops]
       ELSE IF TextHas(h.text, IMPLICIT_STOP_CUES)
       THEN [intent |-> "implicit_stop", stops |-> stops]
       ELSE [intent |-> "freetext", stops |-> stops]

parse_intent(h, stops) ==
    LET is_abort == \/ h.decision \in ABORT_KEYWORDS
                    \/ (h.decision = "feedback" /\ TextIs(h.text, ABORT_KEYWORDS))
    IN IF is_abort
       THEN [intent |-> IF stops + 1 >= 2 THEN "force_abort" ELSE "abort",
             stops |-> stops + 1]
       ELSE IF \/ h.decision \in CONFIRM_COMPLETE_KEYWORDS
               \/ (h.decision = "feedback" /\ TextIs(h.text, CONFIRM_COMPLETE_KEYWORDS))
       THEN [intent |-> "confirm_complete", stops |-> 0]
       ELSE IF TextHas(h.text, IMPLICIT_STOP_CUES)
       THEN [intent |-> "implicit_stop", stops |-> 0]
       ELSE [intent |-> "freetext", stops |-> 0]

----------------------------------------------------------------------------
(* Values of the orchestration state *)

COStatus == {"created", "running", "paused", "completed", "aborted", "failed"}
ExecutionStatus == {"pending", "running_llm", "running_tool", "awaiting_human",
                    "approved", "rejected", "completed", "failed"}

NoArgs == [k \in {} |-> NotAStr]
NoTc == [tool |-> "none", args |-> NoArgs]
NoResp == [decision |-> "none", text |-> <<>>]

\* a pending request: pending_tool_confirm {tool_name, tool_args} or
\* pending_hitl {reason, options}
NoReq == [kind |-> "none", tool_name |-> "none", tool_args |-> NoArgs,
          reason |-> "none", options |-> "none"]
ToolReq(tc) == [kind |-> "tool", tool_name |-> tc.tool, tool_args |-> tc.args,
                reason |-> "none", options |-> "none"]
\* decision.human_reason or "Your input is needed.", decision.options or []
HitlReq(dec) == [kind |-> "hitl", tool_name |-> "none", tool_args |-> NoArgs,
                 reason |-> IF dec.human_reason = "none" THEN "input_needed"
                            ELSE dec.human_reason,
                 options |-> dec.options]

\* an empty PerceptionBus._last_tool_outputs
NoOutputs == [k \in {} |-> "none"]

NoCheckpoint ==
    [present |-> FALSE, pause_reason |-> "none",
     pending_hitl |-> NoReq, pending_tool_confirm |-> NoReq,
     human_decision |-> NoResp, consecutive_stops |-> 0,
     wrap_up_injected |-> FALSE, loop_state |-> InitLoopState,
     confidence_history |-> <<>>, last_tool_outputs |-> NoOutputs,
     paused_at_step |-> 0]

\* config.tool_permissions default, config.planning.enabled default
ConfigToolPermissions == [k \in {"default"} |-> "confirm"]
PlanningEnabled == TRUE
NoOverrides == [k \in {} |-> "auto"]
\* the tools the connected MCP servers offer
McpToolNames == {"search"}

\* the parameters each tool's schema declares
ToolSchema(tool) ==
    CASE tool = "file_write" -> {"path", "content"}
      [] tool = "file_read" -> {"path"}
      [] OTHER -> {"query"}

filter_args(tool, args) ==
    [k \in DOMAIN args \cap ToolSchema(tool) |-> args[k]]

filter_tool_calls(tcs) ==
    [i \in 1..Len(tcs) |->
        [tool |-> tcs[i].tool, args |-> filter_args(tcs[i].tool, tcs[i].args)]]

\* is_approved = human["decision"] != "reject", with the reject test dropped
is_approved_always(h) == TRUE

is_approved(h) == h.decision # "reject"

----------------------------------------------------------------------------
(* Inputs of the loop *)

TcEtcPasswd == [tool |-> "file_write",
                args |-> [k \in {"path"} |-> StrVal(<<"..", "..", "etc", "passwd">>)]]
TcDotDot == [tool |-> "file_write",
             args |-> [k \in {"path"} |-> StrVal(<<"..">>)]]
TcSearch == [tool |-> "search",
             args |-> [k \in {"query"} |-> StrVal(<<"q">>)]]

\* the JSON object of a decision block; keys at their default are left out
DecisionData(tcs, ask, complete, conf) ==
    [k \in {"tool_calls", "task_complete", "confidence"}
           \cup (IF ask = "model" THEN {"human_required", "human_reason", "options"}
                 ELSE IF ask = "help" THEN {"help_request"} ELSE {}) |->
        CASE k = "tool_calls" -> tcs
          [] k = "task_complete" -> complete
          [] k = "confidence" -> conf
          [] k = "human_required" -> TRUE
          [] k = "human_reason" -> "model_question"
          [] k = "options" -> "model_options"
          [] OTHER -> TRUE]

\* a decision that closes a subtask: its last tool call, a question to the
\* human, subtask_complete
SubtaskData ==
    [k \in {"tool_calls", "human_required", "human_reason", "options",
            "subtask_complete", "confidence"} |->
        CASE k = "tool_calls" -> <<TcSearch>>
          [] k = "human_reason" -> "model_question"
          [] k = "options" -> "model_options"
          [] k = "confidence" -> 80
          [] OTHER -> TRUE]

\* a decision that only reports its subtask done
SubtaskOnlyData ==
    [k \in {"subtask_complete", "confidence"} |->
          IF k = "confidence" THEN 80 ELSE TRUE]

Confidences == {20, 80}

\* the decisions the LLM answers with in the loop
LoopDecisionData ==
    { DecisionData(<<TcDotDot>>, "no", FALSE, 80),
      DecisionData(<<TcEtcPasswd, TcSearch>>, "model", FALSE, 80),
      DecisionData(<<TcSearch>>, "help", FALSE, 20),
      DecisionData(<<>>, "model", FALSE, 20),
      DecisionData(<<>>, "no", TRUE, 80),
      SubtaskData,
      SubtaskOnlyData }

FencedText(data) ==
    [fence |-> "ok", fence_data |-> data, flat |-> "none", flat_data |-> <<>>]
ProseText ==
    [fence |-> "none", fence_data |-> <<>>, flat |-> "none", flat_data |-> <<>>]

LLMTexts == {FencedText(data) : data \in LoopDecisionData} \cup {ProseText}

RespApprove == [decision |-> "approve", text |-> <<>>]
RespReject == [decision |-> "reject", text |-> <<>>]
RespStop == [decision |-> "stop", text |-> <<>>]
RespConfirm == [decision |-> "confirm", text |-> <<>>]
RespFeedback == [decision |-> "feedback", text |-> <<"more", "detail">>]

\* what ToolPreview sends, what InteractionPanel sends
ToolResponses == {RespApprove, RespReject}
HitlResponses == {RespApprove, RespStop, RespConfirm, RespFeedback}

\* what provide_human_response can hand to a coroutine waiting for a tool
\* confirmation: the answers of ToolPreview, and a Decision of
\* InteractionPanel, which on_interaction_panel_decision forwards to the
\* service of the selected Task whatever that service is waiting for
ToolWaitResponses == ToolResponses \cup {RespStop}

----------------------------------------------------------------------------
(* ExecutionService: checkpoints *)

\* _save_checkpoint: every ephemeral value of the running service
save_checkpoint(pause_reason, pending_hitl, pending_tool_confirm, ctx_step_count) ==
    [present |-> TRUE, pause_reason |-> pause_reason,
     pending_hitl |-> pending_hitl,
     pending_tool_confirm |-> pending_tool_confirm,
     human_decision |-> NoResp,
     consecutive_stops |-> consecutive_stops,
     wrap_up_injected |-> wrap_up_injected,
     loop_state |-> loop_state,
     confidence_history |-> conf_window,
     last_tool_outputs |-> get_tool_outputs_snapshot(last_tool_outputs),
     paused_at_step |-> ctx_step_count]

\* _clear_checkpoint with the pop of "_checkpoint" left out
clear_checkpoint_kept(c) == c

\* _clear_checkpoint: ctx.pop("_checkpoint", None)
clear_checkpoint(c) == NoCheckpoint

\* _restore_checkpoint replays confidence_history through record_confidence
RECURSIVE restore_confidence(_, _)
restore_confidence(window, history) ==
    IF history = <<>> THEN window
    ELSE restore_confidence(record_confidence(window, history[1]), Tail(history))

\* the Execution row of the current step is the last one created
\* the status of the Step is left as it was
SetExecStatus_kept(st) == execs

SetExecStatus(st) == [execs EXCEPT ![Len(execs)].status = st]

\* the coroutine is suspended in an await inside run_loop's try block
InTry == {"llm", "wait_tool", "exec_tool", "wait_hitl", "reflect", "subtask",
          "closing"}
\* the coroutine is suspended in an await before the try block
BeforeTry == {"connect", "planning"}
HumanWaits == {"wait_tool", "wait_hitl"}

\* the request the coroutine is waiting on
AwaitedRequest ==
    IF pc = "wait_tool" THEN ToolReq(decision.tool_calls[tc_idx])
    ELSE IF pc = "wait_hitl" THEN HitlReq(decision)
    ELSE NoReq

\* OverseerApp: on_execution_complete / on_execution_error /
\* on_worker_state_changed all forget the service and its pending panels
UiForget ==
    /\ ui_service' = FALSE
    /\ ui_pending_hitl' = NoReq
    /\ ui_pending_tool' = NoReq

\* the locals every iteration assigns before it reads them
StepLocalsDead ==
    /\ decision' = DefaultDecision
    /\ verdict' = "none"
    /\ tc_idx' = 0
    /\ needs_approval' = FALSE
    /\ human' = NoResp
    /\ exec_tc' = NoTc

\* locals of a coroutine that is not running
LocalsIdle ==
    /\ step_number' = 0
    /\ resume_cp' = NoCheckpoint
    /\ wrap_up_injected' = FALSE
    /\ decision' = DefaultDecision
    /\ verdict' = "none"
    /\ tc_idx' = 0
    /\ needs_approval' = FALSE
    /\ human' = NoResp
    /\ exec_tc' = NoTc

\* the branch goes on to the next iteration instead of returning
BeginClose_continue ==
    /\ pc' = "loop_top"
    /\ StepLocalsDead
    /\ UNCHANGED <<step_number, resume_cp, wrap_up_injected, exitVars>>

\* a return from inside the try block first awaits tools.disconnect() and
\* llm.close(); the locals are dead, but for _wrap_up_injected, which the
\* CancelledError handler still reads
BeginClose ==
    /\ pc' = "closing"
    /\ StepLocalsDead
    /\ step_number' = 0
    /\ resume_cp' = NoCheckpoint
    /\ UNCHANGED <<wrap_up_injected, exitVars>>

\* a fresh ExecutionService: PerceptionBus(), FirewallEngine(cfg), HumanGate()
KernelFresh ==
    /\ conf_window' = <<>>
    /\ consecutive_rejects' = [t \in Tools |-> 0]
    /\ approvals_recorded' = FALSE
    /\ loop_state' = InitLoopState
    /\ consecutive_stops' = 0
    /\ admin_permissions' = ConfigToolPermissions
    /\ user_overrides' = NoOverrides
    /\ mcp_tools' = {}

\* a HumanGate no component run is using
GateOff ==
    [event |-> FALSE, response |-> 0, pc |-> "off", sent |-> 0, waits |-> 0,
     gap |-> 0, start |-> 0, call_gap |-> 0, ret |-> 0, ret_start |-> 0,
     ret_gap |-> 0]

\* the diff cache is empty and no call is logged
BusOff ==
    /\ last_tool_outputs = NoOutputs
    /\ call_log = <<>>

\* the component harnesses for HumanGate, parse_intent and evaluate are not in use
KernelHarnessOff ==
    /\ gate = GateOff
    /\ intent_log = <<>>
    /\ fw_log = <<>>
    /\ BusOff

Init ==
    /\ KernelHarnessOff
    /\ status = "created"
    /\ step_count = 0
    /\ cp = NoCheckpoint
    /\ has_plan = FALSE
    /\ confirm_recorded = FALSE
    /\ execs = <<>>
    /\ pc = "idle"
    /\ step_number = 0
    /\ resume_cp = NoCheckpoint
    /\ wrap_up_injected = FALSE
    /\ decision = DefaultDecision
    /\ verdict = "none"
    /\ tc_idx = 0
    /\ needs_approval = FALSE
    /\ human = NoResp
    /\ exec_tc = NoTc
    /\ conf_window = <<>>
    /\ consecutive_rejects = [t \in Tools |-> 0]
    /\ approvals_recorded = FALSE
    /\ loop_state = InitLoopState
    /\ consecutive_stops = 0
    /\ admin_permissions = ConfigToolPermissions
    /\ user_overrides = NoOverrides
    /\ mcp_tools = {}
    /\ ui_service = FALSE
    /\ ui_pending_hitl = NoReq
    /\ ui_pending_tool = NoReq
    /\ runs = 0
    /\ orphan_waits = {}
    /\ unanswered = NoReq
    /\ exit_kind = "none"
    /\ cleanup_done = FALSE
    /\ pd_text = ProseText
    /\ pd_result = [raised |-> FALSE, decision |-> DefaultDecision]

----------------------------------------------------------------------------
(* OverseerApp.action_start_co and the head of run_loop *)

\* the part of action_start_co after its guards: a new ExecutionService, a
\* worker running run_loop (which first awaits tools.connect()), stale panels
\* cleared
StartWorker ==
    /\ runs' = runs + 1
    /\ pc' = "connect"
    /\ LocalsIdle
    /\ KernelFresh
    /\ ui_service' = TRUE
    /\ ui_pending_hitl' = NoReq
    /\ ui_pending_tool' = NoReq
    /\ exit_kind' = "none"
    /\ cleanup_done' = FALSE

\* action_start_co checks the status of the Task only, not whether a service
\* or worker of the Task is alive: during a human-required wait the Task is
\* PAUSED, so a second run_loop can be started; the maps _execution_services
\* and _co_workers then name the new service, and the coroutine left in
\* wait_for_human is no longer answered or cancelled through them
action_start_co ==
    /\ pc \in {"idle", "wait_hitl"}
    /\ status \in {"created", "paused", "failed", "aborted"}
    /\ runs < MaxRuns
    /\ Len(execs) + runs < MaxWork
    /\ orphan_waits' = IF pc = "wait_hitl"
                       THEN orphan_waits \cup {AwaitedRequest}
                       ELSE orphan_waits
    /\ StartWorker
    /\ UNCHANGED <<taskVars, unanswered, harnessVars>>

\* tools.connect() returned: set_mcp_tools, status RUNNING, step_number,
\* _restore_checkpoint, _clear_checkpoint
ConnectDone ==
    /\ pc = "connect"
    /\ mcp_tools' = McpToolNames
    /\ status' = "running"
    /\ step_number' = step_count
    /\ resume_cp' = cp
    /\ IF cp.present
       THEN /\ loop_state' = cp.loop_state
            /\ consecutive_stops' = cp.consecutive_stops
            /\ conf_window' = restore_confidence(conf_window, cp.confidence_history)
            /\ wrap_up_injected' = cp.wrap_up_injected
       ELSE /\ UNCHANGED <<loop_state, consecutive_stops, conf_window>>
            /\ wrap_up_injected' = FALSE
    /\ cp' = IF cp.present THEN clear_checkpoint(cp) ELSE cp
    /\ pc' = IF PlanningEnabled /\ ~has_plan THEN "planning" ELSE "resume_inject"
    /\ UNCHANGED <<step_count, has_plan, confirm_recorded, execs, decision, verdict,
                   tc_idx, needs_approval, human, exec_tc, consecutive_rejects,
                   approvals_recorded, admin_permissions, user_overrides, uiVars,
                   exitVars,
                   harnessVars>>

\* _run_planning_phase returned: the plan is stored in the context
PlanningDone ==
    /\ pc = "planning"
    /\ has_plan' = TRUE
    /\ pc' = "resume_inject"
    /\ UNCHANGED <<status, step_count, cp, confirm_recorded, execs, step_number,
                   resume_cp, wrap_up_injected, decision, verdict, tc_idx,
                   needs_approval, human, exec_tc, kernelVars, policyVars, uiVars,
                   exitVars,
                   harnessVars>>

\* _run_planning_phase raised outside its own try (memory.retrieve_as_text,
\* tools.list_tools): the await is before run_loop's try, so no handler runs
\* and the exception leaves run_loop; the worker ends in the ERROR state, for
\* which on_worker_state_changed does nothing
PlanningRaise ==
    /\ pc = "planning"
    /\ pc' = "idle"
    /\ LocalsIdle
    /\ exit_kind' = "raised"
    /\ UNCHANGED <<taskVars, kernelVars, policyVars, uiVars, cleanup_done,
                   harnessVars>>

\* merge_step_result: append a finding and set context["step_count"]
merge_step_result(n) == step_count' = n

\* the resume signal: merge_step_result(co, step_number, "system:resumed", ...)
ResumeInject ==
    /\ pc = "resume_inject"
    /\ IF resume_cp.present THEN merge_step_result(step_number)
       ELSE UNCHANGED step_count
    /\ resume_cp' = NoCheckpoint
    /\ pc' = "loop_top"
    /\ UNCHANGED <<status, cp, has_plan, confirm_recorded, execs, step_number,
                   wrap_up_injected, decision, verdict, tc_idx,
                   needs_approval, human, exec_tc, kernelVars, policyVars, uiVars,
                   exitVars,
                   harnessVars>>

----------------------------------------------------------------------------
(* run_loop: one iteration of the while-True loop *)

\* top of the loop up to the LLM call: step limit, Execution row, prompt
LoopTop ==
    /\ pc = "loop_top"
    /\ LET n == step_number + 1
       IN IF MaxSteps > 0 /\ n > MaxSteps + 1 /\ wrap_up_injected
          THEN \* force PAUSED: checkpoint, disconnect, close, on_complete
               /\ cp' = save_checkpoint("step_limit_exceeded", NoReq, NoReq, step_count)
               /\ status' = "paused"
               /\ BeginClose
               /\ UNCHANGED <<step_count, execs, ui_service, ui_pending_hitl,
                              ui_pending_tool>>
          ELSE /\ Len(execs) < MaxExecs
               /\ Len(execs) + runs < MaxWork
               /\ step_number' = n
               /\ IF MaxSteps > 0 /\ n > MaxSteps /\ ~wrap_up_injected
                  THEN /\ wrap_up_injected' = TRUE
                       /\ merge_step_result(n - 1)
                  ELSE UNCHANGED <<wrap_up_injected, step_count>>
               /\ execs' = Append(execs, [seq |-> n, status |-> "running_llm"])
               /\ pc' = "llm"
               /\ UNCHANGED <<cp, status, ui_service, ui_pending_hitl, ui_pending_tool,
                              resume_cp, decision, verdict, tc_idx, needs_approval,
                              human, exec_tc, exitVars>>
    /\ UNCHANGED <<has_plan, confirm_recorded, kernelVars, policyVars, runs, orphan_waits,
                   unanswered, harnessVars>>

\* llm.call returned: parse_decision, record_confidence, evaluate, filter_args
LLMReturn ==
    /\ pc = "llm"
    /\ \E text \in LLMTexts :
         LET parsed == parse_decision(text).decision
             window == record_confidence(conf_window, parsed.confidence)
             ev == evaluate(parsed, loop_state, window)
             run_tools == ev.decision.tool_calls # <<>> /\ ev.action # "block"
         IN /\ conf_window' = window
            /\ loop_state' = ev.loop_state
            /\ verdict' = ev.action
            /\ decision' = [ev.decision EXCEPT
                              !.tool_calls = IF run_tools THEN filter_tool_calls(@)
                                             ELSE @]
            /\ execs' = IF run_tools THEN SetExecStatus("running_tool") ELSE execs
            /\ tc_idx' = IF run_tools THEN 1 ELSE 0
            /\ pc' = IF run_tools THEN "tools" ELSE "hitl"
    /\ UNCHANGED <<status, step_count, cp, has_plan, confirm_recorded, step_number,
                   resume_cp, wrap_up_injected, needs_approval, human, exec_tc,
                   consecutive_rejects, approvals_recorded, consecutive_stops,
                   policyVars, uiVars, exitVars,
                   harnessVars>>

\* llm.call raised: Step failed, on_error (the application forgets the
\* service), Task paused, checkpoint, then the awaits of the return
LLMFail ==
    /\ pc = "llm"
    /\ execs' = SetExecStatus("failed")
    /\ status' = "paused"
    /\ cp' = save_checkpoint("error", NoReq, NoReq, step_count)
    /\ UiForget
    /\ BeginClose
    /\ UNCHANGED <<step_count, has_plan, confirm_recorded, kernelVars, policyVars,
                   runs, orphan_waits, unanswered, harnessVars>>

\* head of `for tc in decision.tool_calls`: check_tool_permission, then either
\* the checkpoint and the approval wait, or sandbox_args and tools.execute
ToolDispatch ==
    /\ pc = "tools"
    /\ IF tc_idx > Len(decision.tool_calls)
       THEN /\ pc' = "hitl"
            /\ UNCHANGED <<needs_approval, execs, ui_pending_tool, cp, human, exec_tc>>
       ELSE LET tc == decision.tool_calls[tc_idx]
                na == check_tool_permission(admin_permissions, user_overrides,
                                            mcp_tools, tc)
            IN /\ needs_approval' = na
               /\ IF na
                  THEN /\ execs' = SetExecStatus("awaiting_human")
                       /\ ui_pending_tool' = ToolReq(tc)
                       /\ cp' = save_checkpoint("tool_confirm_wait", NoReq,
                                                ToolReq(tc), step_count)
                       /\ human' = NoResp
                       /\ pc' = "wait_tool"
                       /\ UNCHANGED exec_tc
                  ELSE /\ exec_tc' = sandbox_args(tc)
                       /\ pc' = "exec_tool"
                       /\ UNCHANGED <<execs, ui_pending_tool, cp, human>>
    /\ UNCHANGED <<status, step_count, has_plan, confirm_recorded, step_number,
                   resume_cp, wrap_up_injected, decision, verdict, tc_idx,
                   kernelVars, policyVars, ui_service, ui_pending_hitl, runs, orphan_waits,
                   unanswered, exitVars,
                   harnessVars>>

\* gate.wait_for_human() returned for a tool confirmation
ToolHumanResponse ==
    /\ pc = "wait_tool"
    /\ ui_service
    /\ \E r \in ToolWaitResponses, hesitated \in BOOLEAN :
         LET tc == decision.tool_calls[tc_idx]
             approved == is_approved(r)
             rejects == record_approval(consecutive_rejects, tc.tool, approved)
         IN /\ human' = r
            /\ ui_pending_tool' = NoReq
            /\ consecutive_rejects' = rejects
            /\ approvals_recorded' = TRUE
            /\ IF hesitated THEN merge_step_result(step_number)
               ELSE UNCHANGED step_count
            /\ IF approved
               THEN /\ execs' = SetExecStatus("running_tool")
                    /\ exec_tc' = sandbox_args(tc)
                    /\ pc' = "exec_tool"
                    /\ UNCHANGED <<tc_idx, user_overrides>>
               ELSE /\ user_overrides' =
                          should_escalate(rejects, user_overrides,
                                          tc.tool).user_overrides
                    /\ tc_idx' = tc_idx + 1
                    /\ pc' = "tools"
                    /\ UNCHANGED <<execs, exec_tc>>
    /\ unanswered' = IF unanswered = AwaitedRequest THEN NoReq ELSE unanswered
    /\ UNCHANGED <<status, cp, has_plan, confirm_recorded, step_number, resume_cp,
                   wrap_up_injected, decision, verdict, needs_approval, conf_window,
                   loop_state, consecutive_stops, admin_permissions, mcp_tools,
                   ui_service, ui_pending_hitl, runs, orphan_waits, exitVars,
                   harnessVars>>

\* tools.execute(tc) returned: the result is classified and merged (the text
\* of the output, and with it the diff cache of detect_repeat, is not tracked
\* in this specification)
ToolReturn ==
    /\ pc = "exec_tool"
    /\ merge_step_result(step_number)
    /\ tc_idx' = tc_idx + 1
    /\ exec_tc' = NoTc
    /\ pc' = "tools"
    /\ UNCHANGED <<status, cp, has_plan, confirm_recorded, execs, step_number,
                   resume_cp, wrap_up_injected, decision, verdict, needs_approval,
                   human, kernelVars, policyVars, uiVars, exitVars,
                   harnessVars>>

\* tools.execute(tc) raised: the outer `except Exception` of run_loop
ToolRaise ==
    /\ pc = "exec_tool"
    /\ cp' = save_checkpoint("error", NoReq, NoReq, step_count)
    /\ status' = "failed"
    /\ pc' = "idle"
    /\ UiForget
    /\ LocalsIdle
    /\ exit_kind' = "error"
    /\ cleanup_done' = TRUE
    /\ UNCHANGED <<step_count, has_plan, confirm_recorded, execs, kernelVars,
                   policyVars, runs, orphan_waits, unanswered, harnessVars>>

\* step 7: a human-required decision is checkpointed and awaited
HitlDispatch ==
    /\ pc = "hitl"
    /\ IF decision.human_required
       THEN /\ execs' = SetExecStatus("awaiting_human")
            /\ ui_pending_hitl' = HitlReq(decision)
            /\ status' = "paused"
            /\ cp' = save_checkpoint("hitl_wait", HitlReq(decision), NoReq, step_count)
            /\ human' = NoResp
            /\ pc' = "wait_hitl"
       ELSE /\ pc' = "finish"
            /\ UNCHANGED <<execs, ui_pending_hitl, status, cp, human>>
    /\ UNCHANGED <<step_count, has_plan, confirm_recorded, step_number, resume_cp,
                   wrap_up_injected, decision, verdict, tc_idx, needs_approval,
                   exec_tc, kernelVars, policyVars, ui_service, ui_pending_tool,
                   runs, orphan_waits, unanswered, exitVars,
                   harnessVars>>

\* gate.wait_for_human() returned for a human-required decision
HitlResponse ==
    /\ pc = "wait_hitl"
    /\ ui_service
    /\ \E r \in HitlResponses :
         LET pi == parse_intent(r, consecutive_stops)
         IN /\ consecutive_stops' = pi.stops
            /\ IF pi.intent = "force_abort"
               THEN /\ execs' = SetExecStatus("rejected")
                    /\ status' = "aborted"
                    /\ BeginClose
                    /\ ui_pending_hitl' = NoReq
                    /\ UNCHANGED <<step_count, confirm_recorded, ui_service,
                                   ui_pending_tool>>
               ELSE /\ execs' = SetExecStatus("approved")
                    /\ status' = "running"
                    /\ merge_step_result(step_number)
                    /\ ui_pending_hitl' = NoReq
                    /\ IF pi.intent = "abort"
                       THEN \* `continue`: straight to the next iteration
                            /\ pc' = "loop_top"
                            /\ StepLocalsDead
                            /\ UNCHANGED confirm_recorded
                       ELSE /\ pc' = "finish"
                            /\ human' = r
                            /\ confirm_recorded' =
                                 (confirm_recorded \/ pi.intent = "confirm_complete")
                            /\ UNCHANGED <<decision, verdict, tc_idx, needs_approval,
                                           exec_tc>>
                    /\ UNCHANGED <<ui_service, ui_pending_tool, step_number,
                                   resume_cp, wrap_up_injected, exitVars>>
    /\ unanswered' = IF unanswered = AwaitedRequest THEN NoReq ELSE unanswered
    /\ UNCHANGED <<cp, has_plan, conf_window, consecutive_rejects,
                   approvals_recorded, loop_state, policyVars, runs, orphan_waits, harnessVars>>

\* steps 8 and the end of the step: merge of a tool-less step, Step completed
Finish ==
    /\ pc = "finish"
    /\ IF decision.tool_calls = <<>> THEN merge_step_result(step_number)
       ELSE UNCHANGED step_count
    /\ execs' = SetExecStatus("completed")
    /\ pc' = IF step_number % ReflectionInterval = 0 THEN "reflect" ELSE "post_reflect"
    /\ UNCHANGED <<status, cp, has_plan, confirm_recorded, step_number, resume_cp,
                   wrap_up_injected, decision, verdict, tc_idx, needs_approval,
                   human, exec_tc, kernelVars, policyVars, uiVars, exitVars,
                   harnessVars>>

\* step 9: llm.reflect returned (a failure is logged and swallowed); a
\* reflection that reports no progress merges a hint
ReflectDone ==
    /\ pc = "reflect"
    /\ \E stagnation \in BOOLEAN :
         IF stagnation THEN merge_step_result(step_number)
         ELSE UNCHANGED step_count
    /\ pc' = "post_reflect"
    /\ UNCHANGED <<status, cp, has_plan, confirm_recorded, execs, step_number,
                   resume_cp, wrap_up_injected, decision, verdict, tc_idx,
                   needs_approval, human, exec_tc, kernelVars, policyVars, uiVars,
                   exitVars,
                   harnessVars>>

\* steps 10 to 11.5: approval statistics every N steps, then the subtask branch
PostReflect ==
    /\ pc = "post_reflect"
    /\ IF step_number % ReflectionInterval = 0 /\ approvals_recorded
       THEN merge_step_result(step_number)
       ELSE UNCHANGED step_count
    /\ pc' = IF decision.subtask_complete /\ PlanningEnabled THEN "subtask"
             ELSE "complete_check"
    /\ UNCHANGED <<status, cp, has_plan, confirm_recorded, execs, step_number,
                   resume_cp, wrap_up_injected, decision, verdict, tc_idx,
                   needs_approval, human, exec_tc, kernelVars, policyVars, uiVars,
                   exitVars,
                   harnessVars>>

\* a subtask branch that leaves loop detection as the finished subtask left it
SubtaskDone_keep_loop_state ==
    /\ pc = "subtask"
    /\ pc' = "complete_check"
    /\ UNCHANGED <<taskVars, step_number, resume_cp, wrap_up_injected, decision,
                   verdict, tc_idx, needs_approval, human, exec_tc, kernelVars,
                   policyVars, uiVars, exitVars, harnessVars>>

\* _run_checkpoint and _compress_working_memory returned: loop detection is
\* reset for the next subtask
SubtaskDone ==
    /\ pc = "subtask"
    /\ loop_state' = InitLoopState
    /\ pc' = "complete_check"
    /\ UNCHANGED <<taskVars, step_number, resume_cp, wrap_up_injected, decision,
                   verdict, tc_idx, needs_approval, human, exec_tc, conf_window,
                   consecutive_rejects, approvals_recorded, consecutive_stops,
                   policyVars, uiVars, exitVars,
                   harnessVars>>

\* step 12: `if decision.task_complete:` clears the checkpoint and completes
CompleteCheck ==
    /\ pc = "complete_check"
    /\ IF decision.task_complete
       THEN /\ cp' = clear_checkpoint(cp)
            /\ status' = "completed"
            /\ BeginClose
       ELSE /\ pc' = "loop_top"
            /\ StepLocalsDead
            /\ UNCHANGED <<cp, status, step_number, resume_cp, wrap_up_injected,
                           exitVars>>
    /\ UNCHANGED <<step_count, has_plan, confirm_recorded, execs, kernelVars,
                   policyVars, uiVars, harnessVars>>

\* tools.disconnect() and llm.close() returned: on_complete (the application
\* forgets the service and its panels), return
CloseDone ==
    /\ pc = "closing"
    /\ pc' = "idle"
    /\ UiForget
    /\ LocalsIdle
    /\ exit_kind' = "return"
    /\ cleanup_done' = TRUE
    /\ UNCHANGED <<taskVars, kernelVars, policyVars, runs, orphan_waits, unanswered, harnessVars>>

----------------------------------------------------------------------------
(* Cancellation, restart of the application, answers to restored panels *)

\* action_stop_co cancels the worker while run_loop is suspended inside the
\* try block: `except asyncio.CancelledError` copies the pending requests of
\* the checkpoint found in the context into a "user_stop" checkpoint, the Task
\* is paused, and on_worker_state_changed forgets the service and its panels
action_stop_co ==
    /\ pc \in InTry
    /\ ui_service
    /\ cp' = save_checkpoint("user_stop", cp.pending_hitl, cp.pending_tool_confirm,
                             step_count)
    /\ status' = "paused"
    /\ unanswered' = IF pc \in HumanWaits THEN AwaitedRequest ELSE unanswered
    /\ pc' = "idle"
    /\ UiForget
    /\ LocalsIdle
    /\ exit_kind' = "cancel"
    /\ cleanup_done' = TRUE
    /\ UNCHANGED <<step_count, has_plan, confirm_recorded, execs, kernelVars,
                   policyVars, runs, orphan_waits, harnessVars>>

\* the worker is cancelled while run_loop is suspended before the try block
\* (tools.connect, _run_planning_phase): no handler runs
CancelBeforeTry ==
    /\ pc \in BeforeTry
    /\ ui_service
    /\ pc' = "idle"
    /\ UiForget
    /\ LocalsIdle
    /\ exit_kind' = "cancel"
    /\ UNCHANGED <<taskVars, kernelVars, policyVars, runs, orphan_waits, unanswered, cleanup_done,
                   harnessVars>>

\* the process ends without unwinding run_loop and the application is started
\* again: _recover_stale_cos turns a stale RUNNING Task into PAUSED and
\* restores the pending panels of a paused Task from its checkpoint
recover_stale_cos ==
    /\ pc \in InTry \cup BeforeTry \cup {"idle"}
    /\ LET st == IF status = "running" THEN "paused" ELSE status
           show == cp.present /\ st = "paused"
       IN /\ status' = st
          /\ ui_pending_hitl' = IF show THEN cp.pending_hitl ELSE NoReq
          /\ ui_pending_tool' = IF show THEN cp.pending_tool_confirm ELSE NoReq
    /\ ui_service' = FALSE
    /\ orphan_waits' = {}
    /\ pc' = "idle"
    /\ LocalsIdle
    /\ exit_kind' = IF pc = "idle" THEN exit_kind ELSE "crash"
    /\ UNCHANGED <<step_count, cp, has_plan, confirm_recorded, execs, kernelVars,
                   policyVars, runs, unanswered, cleanup_done, harnessVars>>

\* the user answers a restored panel while no service runs:
\* _store_decision_and_resume writes human_decision into the checkpoint,
\* forgets the panels and calls action_start_co
store_decision_and_resume ==
    /\ pc = "idle"
    /\ ~ui_service
    /\ ui_pending_hitl # NoReq \/ ui_pending_tool # NoReq
    /\ status \in {"created", "paused", "failed", "aborted"}
    /\ runs < MaxRuns
    /\ Len(execs) + runs < MaxWork
    /\ \E r \in HitlResponses :
         cp' = IF cp.present THEN [cp EXCEPT !.human_decision = r] ELSE cp
    /\ unanswered' = NoReq
    /\ StartWorker
    /\ UNCHANGED orphan_waits
    /\ UNCHANGED <<status, step_count, has_plan, confirm_recorded, execs, harnessVars>>

Next ==
    \/ action_start_co
    \/ ConnectDone
    \/ PlanningDone
    \/ PlanningRaise
    \/ ResumeInject
    \/ LoopTop
    \/ LLMReturn
    \/ LLMFail
    \/ ToolDispatch
    \/ ToolHumanResponse
    \/ ToolReturn
    \/ ToolRaise
    \/ HitlDispatch
    \/ HitlResponse
    \/ Finish
    \/ ReflectDone
    \/ PostReflect
    \/ SubtaskDone
    \/ CompleteCheck
    \/ CloseDone
    \/ action_stop_co
    \/ CancelBeforeTry
    \/ recover_stale_cos
    \/ store_decision_and_resume

Spec == Init /\ [][Next]_vars


----------------------------------------------------------------------------
(* parse_decision on its own: every shape of response text *)

\* the JSON objects a matched substring decodes to
ParseData == LoopDecisionData \cup {<<>>}

\* what one regular expression finds in a response
Matches ==
    {[kind |-> k, data |-> <<>>] : k \in MatchKinds \ {"ok"}}
    \cup {[kind |-> "ok", data |-> d] : d \in ParseData}

ResponseTexts ==
    {[fence |-> a.kind, fence_data |-> a.data, flat |-> b.kind, flat_data |-> b.data] :
        a \in Matches, b \in Matches}

\* everything but the text to parse is at rest
RestOfInit ==
    /\ status = "created"
    /\ step_count = 0
    /\ cp = NoCheckpoint
    /\ has_plan = FALSE
    /\ confirm_recorded = FALSE
    /\ execs = <<>>
    /\ step_number = 0
    /\ resume_cp = NoCheckpoint
    /\ wrap_up_injected = FALSE
    /\ decision = DefaultDecision
    /\ verdict = "none"
    /\ tc_idx = 0
    /\ needs_approval = FALSE
    /\ human = NoResp
    /\ exec_tc = NoTc
    /\ conf_window = <<>>
    /\ consecutive_rejects = [t \in Tools |-> 0]
    /\ approvals_recorded = FALSE
    /\ loop_state = InitLoopState
    /\ consecutive_stops = 0
    /\ ui_service = FALSE
    /\ ui_pending_hitl = NoReq
    /\ ui_pending_tool = NoReq
    /\ runs = 0
    /\ orphan_waits = {}
    /\ unanswered = NoReq
    /\ exit_kind = "none"
    /\ cleanup_done = FALSE

InitParse ==
    /\ RestOfInit
    /\ KernelHarnessOff
    /\ admin_permissions = ConfigToolPermissions
    /\ user_overrides = NoOverrides
    /\ mcp_tools = {}
    /\ pc = "parse"
    /\ pd_text \in ResponseTexts
    /\ pd_result = [raised |-> FALSE, decision |-> DefaultDecision]

\* firewall.parse_decision(response)
ParseDecision ==
    /\ pc = "parse"
    /\ pd_result' = parse_decision(pd_text)
    /\ pc' = "parsed"
    /\ UNCHANGED <<taskVars, step_number, resume_cp, wrap_up_injected, decision,
                   verdict, tc_idx, needs_approval, human, exec_tc, kernelVars,
                   policyVars, uiVars, exitVars, pd_text, gate, intent_log,
                   fw_log,
                   busVars>>

NextParse == ParseDecision

SpecParse == InitParse /\ [][NextParse]_vars

----------------------------------------------------------------------------
(* PolicyStore on its own: every admin layer, any sequence of overrides *)

\* the keys of config.tool_permissions the resolution of the tools reads
AdminKeys == {"file_write", "default", "mcp_default"}

\* config.tool_permissions: each key absent or at one level
AdminLayers ==
    UNION {[ks -> Levels] : ks \in SUBSET AdminKeys}

InitPolicy ==
    /\ RestOfInit
    /\ KernelHarnessOff
    /\ admin_permissions \in AdminLayers
    /\ user_overrides = NoOverrides
    /\ mcp_tools \in {{}, McpToolNames}
    /\ pc = "policy"
    /\ pd_text = ProseText
    /\ pd_result = [raised |-> FALSE, decision |-> DefaultDecision]

\* policy.override_user_permission(tool_name, level)
OverrideUserPermission ==
    /\ pc = "policy"
    /\ \E tool \in Tools, level \in Levels :
         user_overrides' = override_user_permission(user_overrides, tool, level)
    /\ UNCHANGED <<taskVars, loopVars, kernelVars, admin_permissions, mcp_tools,
                   uiVars, exitVars, harnessVars>>

NextPolicy == OverrideUserPermission

SpecPolicy == InitPolicy /\ [][NextPolicy]_vars

----------------------------------------------------------------------------
(* HumanGate on its own: any interleaving of provide_response and
   wait_for_human; responses are numbered in the order they are provided *)

\* responses the user interface provides in one run
MaxResponses == 5
\* wait_for_human calls the loop makes in one run
MaxWaits == 3

\* the loop, the policy store and the parser are at rest in the runs of the
\* kernel components
ComponentBase ==
    /\ RestOfInit
    /\ admin_permissions = ConfigToolPermissions
    /\ user_overrides = NoOverrides
    /\ mcp_tools = {}
    /\ pd_text = ProseText
    /\ pd_result = [raised |-> FALSE, decision |-> DefaultDecision]

InitGate ==
    /\ ComponentBase
    /\ pc = "gate"
    /\ gate = [GateOff EXCEPT !.pc = "idle"]
    /\ intent_log = <<>>
    /\ fw_log = <<>>
    /\ BusOff

\* wait_for_human without its first two statements
clear_and_reset_skipped(g) == g

\* the first two statements of wait_for_human: self._event.clear();
\* self._response = None
clear_and_reset(g) == [g EXCEPT !.event = FALSE, !.response = 0]

\* HumanGate.provide_response: store the response, set the event (which wakes
\* a coroutine suspended in self._event.wait())
provide_response ==
    /\ pc = "gate"
    /\ gate.sent < MaxResponses
    /\ LET id == gate.sent + 1
       IN gate' = [gate EXCEPT
                     !.sent = id,
                     !.response = id,
                     !.event = TRUE,
                     !.pc = IF gate.pc = "waiting" THEN "woken" ELSE gate.pc,
                     !.gap = IF gate.pc = "idle" /\ gate.waits >= 1
                             THEN id ELSE gate.gap]
    /\ UNCHANGED <<taskVars, loopVars, kernelVars, policyVars, uiVars, exitVars,
                   parseVars, intent_log, fw_log,
                   busVars>>

\* HumanGate.wait_for_human up to its await: clear, reset, then
\* self._event.wait(), which suspends unless the event is set
wait_for_human ==
    /\ pc = "gate"
    /\ gate.pc = "idle"
    /\ gate.waits < MaxWaits
    /\ LET g == clear_and_reset(gate)
       IN gate' = [g EXCEPT
                     !.pc = IF g.event THEN "woken" ELSE "waiting",
                     !.start = gate.sent,
                     !.call_gap = gate.gap,
                     !.gap = 0]
    /\ UNCHANGED <<taskVars, loopVars, kernelVars, policyVars, uiVars, exitVars,
                   parseVars, intent_log, fw_log,
                   busVars>>

\* the woken coroutine runs again: return self._response or the "timeout"
\* response (numbered -1)
WaitReturn ==
    /\ pc = "gate"
    /\ gate.pc = "woken"
    /\ gate' = [gate EXCEPT
                  !.pc = "idle",
                  !.waits = gate.waits + 1,
                  !.ret = IF gate.response = 0 THEN -1 ELSE gate.response,
                  !.ret_start = gate.start,
                  !.ret_gap = gate.call_gap]
    /\ UNCHANGED <<taskVars, loopVars, kernelVars, policyVars, uiVars, exitVars,
                   parseVars, intent_log, fw_log,
                   busVars>>

NextGate ==
    \/ provide_response
    \/ wait_for_human
    \/ WaitReturn

SpecGate == InitGate /\ [][NextGate]_vars

----------------------------------------------------------------------------
(* HumanGate.parse_intent on its own: any sequence of responses *)

\* responses parsed in one run
MaxIntents == 3

\* an abort keyword typed as feedback, feedback that only contains one, and the
\* decision value that is both an abort and a confirm-complete keyword
RespFeedbackStop == [decision |-> "feedback", text |-> <<"stop">>]
RespFeedbackPleaseStop == [decision |-> "feedback", text |-> <<"please", "stop">>]
RespDone == [decision |-> "done", text |-> <<>>]

IntentResponses ==
    {RespApprove, RespReject, RespStop, RespConfirm, RespFeedback,
     RespFeedbackStop, RespFeedbackPleaseStop, RespDone}

InitIntent ==
    /\ ComponentBase
    /\ pc = "intent"
    /\ gate = GateOff
    /\ intent_log = <<>>
    /\ fw_log = <<>>
    /\ BusOff

\* gate.parse_intent(human) on the gate's own counter
ParseIntent ==
    /\ pc = "intent"
    /\ Len(intent_log) < MaxIntents
    /\ \E h \in IntentResponses :
         LET r == parse_intent(h, consecutive_stops)
         IN /\ consecutive_stops' = r.stops
            /\ intent_log' = Append(intent_log, [response |-> h, intent |-> r.intent])
    /\ UNCHANGED <<taskVars, loopVars, conf_window, consecutive_rejects,
                   approvals_recorded, loop_state, policyVars, uiVars, exitVars,
                   parseVars, gate, fw_log,
                   busVars>>

NextIntent == ParseIntent

SpecIntent == InitIntent /\ [][NextIntent]_vars

----------------------------------------------------------------------------
(* FirewallEngine.evaluate on its own: any sequence of decisions, each
   evaluated as run_loop does it, after record_confidence *)

\* evaluations in one run
MaxEvals == 4

\* a second search, with other arguments
TcSearchOther == [tool |-> "search",
                  args |-> [k \in {"query"} |-> StrVal(<<"r">>)]]

\* the decisions evaluated: the same call at low and high confidence, the same
\* tool with other arguments, another tool, and tool-free decisions that are
\* plain (at 0.2, 0.3 and 0.8), complete, human-required or a help request
FwDecisionData ==
    {DecisionData(<<TcSearch>>, "no", FALSE, 20),
     DecisionData(<<TcSearch>>, "no", FALSE, 80),
     DecisionData(<<TcSearchOther>>, "no", FALSE, 20),
     DecisionData(<<TcSearchOther>>, "no", FALSE, 80),
     DecisionData(<<TcDotDot>>, "no", FALSE, 80),
     DecisionData(<<>>, "no", FALSE, 20),
     DecisionData(<<>>, "no", FALSE, 30),
     DecisionData(<<>>, "no", FALSE, 80),
     DecisionData(<<>>, "no", TRUE, 20),
     DecisionData(<<>>, "model", FALSE, 20),
     DecisionData(<<>>, "help", FALSE, 20)}

InitFirewall ==
    /\ ComponentBase
    /\ pc = "firewall"
    /\ gate = GateOff
    /\ intent_log = <<>>
    /\ fw_log = <<>>
    /\ BusOff

\* run_loop steps 4.5 and 5: perception.record_confidence(decision.confidence),
\* then firewall.evaluate(decision)
Evaluate ==
    /\ pc = "firewall"
    /\ Len(fw_log) < MaxEvals
    /\ \E data \in FwDecisionData :
         LET d == normalize_decision(data)
             w == record_confidence(conf_window, d.confidence)
             v == evaluate(d, loop_state, w)
         IN /\ conf_window' = w
            /\ loop_state' = v.loop_state
            /\ fw_log' = Append(fw_log, [decision |-> d, window |-> w,
                                        action |-> v.action, out |-> v.decision])
    /\ UNCHANGED <<taskVars, loopVars, consecutive_rejects, approvals_recorded,
                   consecutive_stops, policyVars, uiVars, exitVars, parseVars,
                   gate, intent_log,
                   busVars>>

NextFirewall == Evaluate

SpecFirewall == InitFirewall /\ [][NextFirewall]_vars

----------------------------------------------------------------------------
(* A Checkpoint saved, restored into a fresh ExecutionService and saved again *)

\* kernel states a run can be in when it saves: the loop state before any
\* tool call and after one, windows that are empty, short and full, a cache
\* that is empty and one that holds two outputs
RtLoopStates ==
    {InitLoopState,
     evaluate(normalize_decision(DecisionData(<<TcSearch>>, "no", FALSE, 80)),
              InitLoopState, <<80>>).loop_state}
RtWindows ==
    {<<>>, <<80, 20>>,
     [i \in 1..ConfidenceWindowSize |-> IF i % 3 = 0 THEN 20 ELSE 80]}
RtOutputs ==
    {NoOutputs,
     detect_repeat(detect_repeat(NoOutputs, "search", "o1",
                                 <<<<"query", "q">>>>).outputs,
                   "file_read", "o2", <<>>).outputs}
\* the pending request a save at a human wait is given
RtPending ==
    {<<HitlReq(normalize_decision(DecisionData(<<>>, "model", FALSE, 20))), NoReq>>,
     <<NoReq, ToolReq(TcSearch)>>}

InitRoundTrip ==
    /\ status = "running"
    /\ step_count \in {0, 1}
    /\ cp = NoCheckpoint
    /\ has_plan = FALSE
    /\ confirm_recorded = FALSE
    /\ execs = <<>>
    /\ pc = "rt_live"
    /\ step_number = 0
    /\ resume_cp = NoCheckpoint
    /\ wrap_up_injected \in BOOLEAN
    /\ decision = DefaultDecision
    /\ verdict = "none"
    /\ tc_idx = 0
    /\ needs_approval = FALSE
    /\ human = NoResp
    /\ exec_tc = NoTc
    /\ conf_window \in RtWindows
    /\ consecutive_rejects = [t \in Tools |-> 0]
    /\ approvals_recorded = FALSE
    /\ loop_state \in RtLoopStates
    /\ consecutive_stops \in {0, 1}
    /\ admin_permissions = ConfigToolPermissions
    /\ user_overrides = NoOverrides
    /\ mcp_tools = {}
    /\ ui_service = FALSE
    /\ ui_pending_hitl = NoReq
    /\ ui_pending_tool = NoReq
    /\ runs = 0
    /\ orphan_waits = {}
    /\ unanswered = NoReq
    /\ exit_kind = "none"
    /\ cleanup_done = FALSE
    /\ pd_text = ProseText
    /\ pd_result = [raised |-> FALSE, decision |-> DefaultDecision]
    /\ gate = GateOff
    /\ intent_log = <<>>
    /\ fw_log = <<>>
    /\ last_tool_outputs \in RtOutputs
    /\ call_log = <<>>

\* run_loop saves before a human wait (steps 6 and 7): the Task is paused for
\* a HITL wait, the pending request goes into the Checkpoint
RtSave ==
    /\ pc = "rt_live"
    /\ \E pending \in RtPending :
         /\ cp' = save_checkpoint(IF pending[1] # NoReq THEN "human_required"
                                  ELSE "tool_confirm_wait",
                                  pending[1], pending[2], step_count)
         /\ status' = IF pending[1] # NoReq THEN "paused" ELSE status
    /\ call_log' = Append(call_log, cp')
    /\ pc' = "rt_saved"
    /\ UNCHANGED <<step_count, has_plan, confirm_recorded, execs, step_number,
                   resume_cp, wrap_up_injected, decision, verdict, tc_idx,
                   needs_approval, human, exec_tc, kernelVars, policyVars, uiVars,
                   exitVars, parseVars, gate, intent_log, fw_log,
                   last_tool_outputs>>

\* a new ExecutionService runs run_loop up to its try: status RUNNING,
\* _restore_checkpoint (restore_loop_state, restore_state,
\* restore_tool_outputs, record_confidence for each saved score),
\* _clear_checkpoint
RtRestore ==
    /\ pc = "rt_saved"
    /\ status' = "running"
    /\ loop_state' = cp.loop_state
    /\ consecutive_stops' = cp.consecutive_stops
    /\ last_tool_outputs' = restore_tool_outputs(cp.last_tool_outputs)
    /\ conf_window' = restore_confidence(<<>>, cp.confidence_history)
    /\ wrap_up_injected' = cp.wrap_up_injected
    /\ cp' = clear_checkpoint(cp)
    /\ pc' = "rt_restored"
    /\ UNCHANGED <<step_count, has_plan, confirm_recorded, execs, step_number,
                   resume_cp, decision, verdict, tc_idx, needs_approval, human,
                   exec_tc, consecutive_rejects, approvals_recorded, policyVars,
                   uiVars, exitVars, parseVars, gate, intent_log, fw_log,
                   call_log>>

\* the resumed run is cancelled at its first await inside the try: the
\* CancelledError handler saves with the pending requests of the Checkpoint
\* it finds in the context
RtSaveAgain ==
    /\ pc = "rt_restored"
    /\ cp' = save_checkpoint("user_stop", cp.pending_hitl, cp.pending_tool_confirm,
                             step_count)
    /\ status' = "paused"
    /\ pc' = "rt_resaved"
    /\ UNCHANGED <<step_count, has_plan, confirm_recorded, execs, step_number,
                   resume_cp, wrap_up_injected, decision, verdict, tc_idx,
                   needs_approval, human, exec_tc, kernelVars, policyVars, uiVars,
                   exitVars, harnessVars>>

NextRoundTrip ==
    \/ RtSave
    \/ RtRestore
    \/ RtSaveAgain

SpecRoundTrip == InitRoundTrip /\ [][NextRoundTrip]_vars

----------------------------------------------------------------------------
(* record_approval and should_escalate on a PerceptionBus and a FirewallEngine
   of their own, as tests/test_perception.py calls them *)

MaxCalls == 5

EscTools == {"file_write", "search"}

InitEscalate ==
    /\ ComponentBase
    /\ pc = "escalate"
    /\ gate = GateOff
    /\ intent_log = <<>>
    /\ fw_log = <<>>
    /\ BusOff

\* bus.record_approval(tool, approved, elapsed)
RecordApproval ==
    /\ pc = "escalate"
    /\ Len(call_log) < MaxCalls
    /\ \E tool \in EscTools, approved \in BOOLEAN :
         /\ consecutive_rejects' = record_approval(consecutive_rejects, tool, approved)
         /\ call_log' = Append(call_log,
                [op |-> "record_approval", tool |-> tool, approved |-> approved,
                 result |-> "None", before |-> user_overrides,
                 after |-> user_overrides, rejects |-> consecutive_rejects'])
    /\ approvals_recorded' = TRUE
    /\ UNCHANGED <<taskVars, loopVars, conf_window, loop_state, consecutive_stops,
                   policyVars, uiVars, exitVars, parseVars, gate, intent_log,
                   fw_log, last_tool_outputs>>

\* engine.should_escalate(tool)
ShouldEscalate ==
    /\ pc = "escalate"
    /\ Len(call_log) < MaxCalls
    /\ \E tool \in EscTools :
         LET r == should_escalate(consecutive_rejects, user_overrides, tool)
         IN /\ user_overrides' = r.user_overrides
            /\ call_log' = Append(call_log,
                   [op |-> "should_escalate", tool |-> tool, approved |-> FALSE,
                    result |-> r.result, before |-> user_overrides,
                    after |-> r.user_overrides, rejects |-> consecutive_rejects])
    /\ UNCHANGED <<taskVars, loopVars, kernelVars, admin_permissions, mcp_tools,
                   uiVars, exitVars, parseVars, gate, intent_log, fw_log,
                   last_tool_outputs>>

NextEscalate ==
    \/ RecordApproval
    \/ ShouldEscalate

SpecEscalate == InitEscalate /\ [][NextEscalate]_vars

----------------------------------------------------------------------------
(* record_confidence on a PerceptionBus of its own *)

MaxRecords == 11

InitConfidence ==
    /\ ComponentBase
    /\ pc = "confidence"
    /\ gate = GateOff
    /\ intent_log = <<>>
    /\ fw_log = <<>>
    /\ BusOff

\* bus.record_confidence(confidence)
RecordConfidence ==
    /\ pc = "confidence"
    /\ Len(call_log) < MaxRecords
    /\ \E c \in Confidences :
         /\ conf_window' = record_confidence(conf_window, c)
         /\ call_log' = Append(call_log, c)
    /\ UNCHANGED <<taskVars, loopVars, consecutive_rejects, approvals_recorded,
                   loop_state, consecutive_stops, policyVars, uiVars, exitVars,
                   parseVars, gate, intent_log, fw_log, last_tool_outputs>>

NextConfidence == RecordConfidence

SpecConfidence == InitConfidence /\ [][NextConfidence]_vars

----------------------------------------------------------------------------
(* detect_repeat on a PerceptionBus of its own *)

MaxRepeats == 3

RepTools == {"file_read", "search"}
\* no arguments, two paths, and one dict written in both key orders
RepArgs ==
    {<<>>,
     <<<<"path", "a.txt">>>>,
     <<<<"path", "b.txt">>>>,
     <<<<"path", "a.txt">>, <<"query", "x">>>>,
     <<<<"query", "x">>, <<"path", "a.txt">>>>}
RepResults == {"content_a", "content_b"}

InitRepeat ==
    /\ ComponentBase
    /\ pc = "repeat"
    /\ gate = GateOff
    /\ intent_log = <<>>
    /\ fw_log = <<>>
    /\ BusOff

\* bus.detect_repeat(tool, result, tool_args)
DetectRepeat ==
    /\ pc = "repeat"
    /\ Len(call_log) < MaxRepeats
    /\ \E tool \in RepTools, tool_args \in RepArgs, result \in RepResults :
         LET r == detect_repeat(last_tool_outputs, tool, result, tool_args)
         IN /\ last_tool_outputs' = r.outputs
            /\ call_log' = Append(call_log,
                   [tool |-> tool, args |-> tool_args, result |-> result,
                    note |-> r.note])
    /\ UNCHANGED <<taskVars, loopVars, kernelVars, policyVars, uiVars, exitVars,
                   parseVars, gate, intent_log, fw_log>>

NextRepeat == DetectRepeat

SpecRepeat == InitRepeat /\ [][NextRepeat]_vars

----------------------------------------------------------------------------
(* classify_result on every shape of tool result *)

\* a value absent from the dict
Missing == [is_str |-> FALSE, segs |-> <<"missing">>]

\* the dict of the keys that are given a value
ResultDict(status_value, output, content, err, body) ==
    LET given == [k \in {"status", "output", "content", "error", "result"} |->
                    CASE k = "status" -> status_value
                      [] k = "output" -> output
                      [] k = "content" -> content
                      [] k = "error" -> err
                      [] OTHER -> body]
    IN [k \in {j \in DOMAIN given : given[j] # Missing} |-> given[k]]

ClassifyResults ==
    {ResultDict(st, out, con, err, body) :
        st \in {Missing, StrVal(<<"ok">>), StrVal(<<"error">>), StrVal(<<"unknown">>)},
        out \in {Missing, NotAStr, StrVal(<<>>), StrVal(<<" ", " ", " ">>),
                 StrVal(<<"data">>), StrVal(<<" ", "data", " ">>)},
        con \in {Missing, StrVal(<<>>), StrVal(<<"data">>)},
        err \in {Missing, StrVal(<<"fail">>)},
        body \in {Missing, StrVal(<<"something">>), StrVal(<<"error">>)}}

InitClassify ==
    /\ ComponentBase
    /\ pc = "classify"
    /\ gate = GateOff
    /\ intent_log = <<>>
    /\ fw_log = <<>>
    /\ BusOff

\* PerceptionBus.classify_result(tool, result), a static method
ClassifyResult ==
    /\ pc = "classify"
    /\ \E result \in ClassifyResults :
         call_log' = <<[result |-> result,
                        class |-> classify_result("test", result)]>>
    /\ UNCHANGED <<taskVars, loopVars, kernelVars, policyVars, uiVars, exitVars,
                   parseVars, gate, intent_log, fw_log, last_tool_outputs>>

NextClassify == ClassifyResult

SpecClassify == InitClassify /\ [][NextClassify]_vars

----------------------------------------------------------------------------
(* Properties *)

\* C1: a Task is marked completed on a task_complete=true decision only if a
\* human response with intent confirm_complete was recorded for it before.
C1_CompletedOnlyAfterConfirm == status = "completed" => confirm_recorded

\* C2: a tool call for which check_tool_permission reported needs_approval is
\* handed to tools.execute only after a human response to its confirmation
\* request has arrived, and never when that response is a rejection.
C2_ApprovedBeforeExecute ==
    (pc = "exec_tool" /\ needs_approval) => human.decision \notin {"none", "reject"}

C2_Witness ==
    /\ pc = "exec_tool"
    /\ needs_approval
    /\ human = RespApprove
    /\ exec_tc.tool = "file_write"

\* C3: a tool call is executed only in a step whose verdict is allow; a step
\* whose verdict is needs_human or block executes none of its tool calls.
C3_ExecuteOnlyWhenAllowed == pc = "exec_tool" => verdict = "allow"

\* the path-like str arguments of the call handed to tools.execute
ExecutedPaths ==
    {exec_tc.args[k].segs : k \in {a \in DOMAIN exec_tc.args \cap PATH_KEYS :
                                      IsStr(exec_tc.args[a])}}

\* C5: every path-like str argument handed to tools.execute is the managed
\* output directory joined with one name, and names a location inside the
\* managed output directory.
C5_ExecutedPathsInsideOutputDir ==
    pc = "exec_tool" =>
        \A path \in ExecutedPaths :
            /\ Len(path) = Len(OutputDir) + 1
            /\ IsPrefix(OutputDir, path)
            /\ InsideOutputDir(path)

\* the fail-safe answer: human_required with the fixed clarification prompt
IsFailSafe(d) ==
    /\ d.human_required
    /\ d.human_reason = "clarify"
    /\ d.options = "continue_or_abort"

\* C4 (as stated): parse_decision never raises, and a text whose fenced
\* decision block is missing, is invalid JSON or fails validation yields the
\* fail-safe decision.
C4_FailSafeWithoutFencedBlock ==
    pc = "parsed" =>
        /\ ~pd_result.raised
        /\ pd_text.fence # "ok" => IsFailSafe(pd_result.decision)

\* C4 (amended): parse_decision never raises, and a text in which neither the
\* fenced decision block nor the brace-free object holding "task_complete"
\* decodes and validates yields the fail-safe decision.
C4_FailSafeWithoutAnyBlock ==
    pc = "parsed" =>
        /\ ~pd_result.raised
        /\ (pd_text.fence # "ok" /\ pd_text.flat # "ok")
               => IsFailSafe(pd_result.decision)

C4_Witness ==
    /\ pc = "parsed"
    /\ pd_text.fence = "bad_fields"
    /\ pd_text.flat = "bad_json"
    /\ IsFailSafe(pd_result.decision)
    /\ ~pd_result.raised

\* the rank of a resolved user level; an absent level ranks lowest
UserRank(tool) ==
    LET user_level == resolve_user(user_overrides, tool)
    IN IF user_level = Absent THEN 0 ELSE PERMISSION_ORDER(user_level)

AdminRank(tool) ==
    PERMISSION_ORDER(resolve_admin(admin_permissions, mcp_tools, tool))

\* C6: for every tool, get_permission is the stricter of the admin level and
\* the user level, whatever overrides were made.
C6_StricterOfAdminAndUser ==
    pc = "policy" =>
        \A tool \in Tools :
            LET effective == get_permission(admin_permissions, user_overrides,
                                            mcp_tools, tool)
            IN /\ effective \in Levels
               /\ PERMISSION_ORDER(effective) = Max2(AdminRank(tool), UserRank(tool))

C6_Witness ==
    /\ pc = "policy"
    /\ \E tool \in Tools :
         /\ tool \in DOMAIN user_overrides
         /\ UserRank(tool) < AdminRank(tool)
         /\ get_permission(admin_permissions, user_overrides, mcp_tools, tool)
              = resolve_admin(admin_permissions, mcp_tools, tool)
    /\ \E tool \in Tools :
         /\ UserRank(tool) > AdminRank(tool)
         /\ get_permission(admin_permissions, user_overrides, mcp_tools, tool)
              = user_overrides[tool]

\* C7: the sequence numbers of a Task's Steps are strictly increasing in
\* creation order.
C7_SequenceStrictlyIncreasing ==
    \A i, j \in 1..Len(execs) : i < j => execs[i].seq < execs[j].seq

\* C8: at most one Step of the Task has status awaiting_human.
C8_AtMostOneAwaitingHuman ==
    Cardinality({i \in 1..Len(execs) : execs[i].status = "awaiting_human"}) <= 1

\* C9: a loop resumed after a cancellation in a human wait makes no LLM call
\* while the request of that wait is unanswered.
C9_NoLLMCallWhileUnanswered == pc = "llm" => unanswered = NoReq

\* C10: the checkpoint a cancellation writes holds the request awaited at that
\* moment, and no request when the loop was not in a human wait.
C10_CancelCheckpointExact ==
    [][(pc \in InTry /\ pc' = "idle" /\ cp'.present /\ cp'.pause_reason = "user_stop")
         => /\ cp'.pending_tool_confirm =
                 (IF pc = "wait_tool" THEN AwaitedRequest ELSE NoReq)
            /\ cp'.pending_hitl =
                 (IF pc = "wait_hitl" THEN AwaitedRequest ELSE NoReq)]_vars


----------------------------------------------------------------------------
(* Cancellation, checkpoints around suspension points *)

\* C11: whenever run_loop is cancelled at a suspension point (tool connect,
\* planning, LLM call, tool execution, human wait, reflection, subtask
\* checkpoint), a final "user_stop" Checkpoint is written, the Task is paused
\* and tools.disconnect() and llm.close() have run before run_loop exits
C11_CancelCleansUp ==
    [][(exit_kind' = "cancel" /\ pc # "idle" /\ pc' = "idle")
         => /\ cp'.present
            /\ cp'.pause_reason = "user_stop"
            /\ status' = "paused"
            /\ cleanup_done']_vars


\* the checkpoint in Task.State is the one the coroutine suspended in
\* wait_for_human wrote before the wait
LiveWaitCheckpointed ==
    /\ pc = "wait_tool" =>
         /\ cp.present
         /\ cp.pause_reason = "tool_confirm_wait"
         /\ cp.pending_tool_confirm = AwaitedRequest
    /\ pc = "wait_hitl" =>
         /\ cp.present
         /\ cp.pause_reason = "hitl_wait"
         /\ cp.pending_hitl = AwaitedRequest

\* C12: whenever a run_loop coroutine is suspended inside wait_for_human,
\* Task.State holds the Checkpoint written before that wait, and its pending
\* request (pending_tool_confirm or pending_hitl) equals the awaited one
C12_WaitHasMatchingCheckpoint ==
    /\ LiveWaitCheckpointed
    /\ \A r \in orphan_waits : cp.present /\ cp.pending_hitl = r


\* C13: a Checkpoint is written immediately before every suspension point of
\* the loop: while run_loop is suspended in the LLM call, in a tool execution
\* or in a human wait, Task.State holds a Checkpoint
C13_CheckpointBeforeSuspension ==
    pc \in {"llm", "exec_tool", "wait_tool", "wait_hitl"} => cp.present


\* C14: the step of run_loop that restores a Checkpoint (tools.connect() has
\* returned and Task.State holds one) hands exactly that Checkpoint to the run
\* and leaves Task.State without it before the run suspends again, so no later
\* run finds it
C14_RestoreDeletesCheckpoint ==
    [][(pc = "connect" /\ pc' \notin {"connect", "idle"} /\ cp.present)
         => (resume_cp' = cp /\ cp' = NoCheckpoint)]_vars

C14_Witness ==
    /\ pc \in {"planning", "resume_inject"}
    /\ resume_cp.present
    /\ cp = NoCheckpoint
    /\ runs = 2


----------------------------------------------------------------------------
(* HumanGate *)

\* C15: a response provided after one wait_for_human call completed and before
\* the next call is armed is not lost: the next wait_for_human returns it
C15_GapResponseReturned ==
    (gate.waits >= 2 /\ gate.ret_gap # 0) => gate.ret = gate.ret_gap

\* C16: wait_for_human returns only a response provided after the call began,
\* never one provided before it (numbered at most the count of responses
\* provided when the call started) and never the "timeout" response
C16_NoStaleResponse ==
    gate.waits >= 1 => gate.ret > gate.ret_start

\* a call that began with a response left over has returned
C16_Witness ==
    /\ gate.waits >= 2
    /\ gate.ret_gap # 0
    /\ gate.ret > gate.ret_gap


\* an abort response: the decision value is an abort keyword, or it is
\* feedback whose whole text is one
AbortResponse(h) ==
    \/ h.decision \in ABORT_KEYWORDS
    \/ (h.decision = "feedback" /\ Len(h.text) = 1 /\ h.text[1] \in ABORT_KEYWORDS)

\* C17: in every sequence of responses passed to parse_intent, an abort
\* response resolves to force_abort when the response just before it was an
\* abort response too, and to (graceful) abort otherwise: at the start, or
\* after a reject, a free-text or any other non-abort response
C17_AbortThenForceAbort ==
    \A i \in 1..Len(intent_log) :
        AbortResponse(intent_log[i].response) =>
            intent_log[i].intent =
                IF i > 1 /\ AbortResponse(intent_log[i - 1].response)
                THEN "force_abort" ELSE "abort"

\* abort, a reject or free-text response, abort again: the second abort is
\* graceful
C17_Witness ==
    /\ Len(intent_log) = 3
    /\ AbortResponse(intent_log[1].response)
    /\ intent_log[2].response \in {RespReject, RespFeedback}
    /\ AbortResponse(intent_log[3].response)
    /\ intent_log[3].intent = "abort"


----------------------------------------------------------------------------
(* Force abort *)

\* C18: when the response to a human-required step resolves to force_abort
\* (the second abort in a row), the Task is marked aborted and run_loop goes
\* straight to tools.disconnect() / llm.close(); from there it makes no LLM
\* call and executes no tool, and it exits only with both done
C18_ForceAbortTerminates ==
    [][/\ (pc = "wait_hitl" /\ consecutive_stops' >= 2
             /\ consecutive_stops' > consecutive_stops)
          => (status' = "aborted" /\ pc' = "closing")
       /\ (pc = "closing" /\ status = "aborted" /\ exit_kind' # "crash")
          => (pc' = "closing" \/ (pc' = "idle" /\ cleanup_done'))]_vars

C18_Witness ==
    /\ status = "aborted"
    /\ consecutive_stops >= 2
    /\ pc = "idle"
    /\ exit_kind = "return"
    /\ cleanup_done


----------------------------------------------------------------------------
(* FirewallEngine.evaluate: loop detection and the confidence breaker *)

HasToolCalls(e) == e.decision.tool_calls # <<>>

\* the evaluations of decisions with tool calls, in order
ToolEvals == SelectSeq(fw_log, HasToolCalls)

\* the proposals i-k .. i-1 all have the signature of proposal i
SameSigRun(i, k) ==
    \A j \in 1..k : ToolEvals[i - j].decision.tool_calls = ToolEvals[i].decision.tool_calls

\* the proposals i-k .. i-1 all have the sorted tool names of proposal i
SameNamesRun(i, k) ==
    \A j \in 1..k : SortedToolNames(ToolEvals[i - j].decision.tool_calls)
                      = SortedToolNames(ToolEvals[i].decision.tool_calls)

\* consecutive proposals before proposal i that equal it
ExactRepeats(i) == Cardinality({k \in 1..(i - 1) : SameSigRun(i, k)})
NameRepeats(i) == Cardinality({k \in 1..(i - 1) : SameNamesRun(i, k)})

\* the average of the recorded confidences is at least 0.5
Confident(e) == SumSeq(e.window) >= AvgConfidenceSplit * Len(e.window)

\* evaluate answered with the verdict of loop detection
LoopTripped(e) ==
    /\ e.action = "needs_human"
    /\ e.out.tool_calls = <<>>
    /\ e.out.human_reason = "loop"

\* C19: over successive evaluations of decisions with tool calls, loop
\* detection trips exactly when the count of exact repeats is at least E or
\* the count of same-name repeats is at least N, with (E, N) = (2, 3) when the
\* average recorded confidence is >= 0.5 and (1, 2) when it is below
C19_LoopTripsAtThresholds ==
    \A i \in 1..Len(ToolEvals) :
        LET e == ToolEvals[i]
            E == IF Confident(e) THEN 2 ELSE 1
            N == IF Confident(e) THEN 3 ELSE 2
        IN LoopTripped(e) <=> (ExactRepeats(i) >= E \/ NameRepeats(i) >= N)

\* the same call three times at high confidence: the 1st repeat passes, the
\* 2nd is blocked
C19_Witness ==
    /\ Len(ToolEvals) = 3
    /\ Confident(ToolEvals[3])
    /\ ExactRepeats(3) = 2
    /\ ~LoopTripped(ToolEvals[2])
    /\ LoopTripped(ToolEvals[3])

\* the last LowConfidenceWindow recorded confidences are all below the threshold
LastThreeLow(e) ==
    /\ Len(e.window) >= LowConfidenceWindow
    /\ \A k \in 1..Len(e.window) :
         k > Len(e.window) - LowConfidenceWindow => e.window[k] < LowConfidenceThreshold

\* C20: when the last 3 recorded confidences (the current one included) are
\* all below 0.3 and the decision is neither human_required nor task_complete,
\* evaluate returns it with human_required set and a verdict other than allow;
\* with fewer than 3 scores or one of the last 3 at or above 0.3 the breaker
\* does not fire: a decision that asks for nothing and trips no loop is allowed
\* with human_required still false
C20_ConfidenceBreaker ==
    \A i \in 1..Len(fw_log) :
        LET e == fw_log[i]
            d == e.decision
        IN /\ (LastThreeLow(e) /\ ~d.human_required /\ ~d.task_complete)
                => (e.out.human_required /\ e.action # "allow")
           /\ ~LastThreeLow(e)
                => /\ e.out.human_reason # "low_confidence"
                   /\ (~d.human_required /\ ~d.help_request /\ ~LoopTripped(e))
                        => (~e.out.human_required /\ e.action = "allow")

\* the breaker fired on a plain decision
C20_Witness ==
    \E i \in 1..Len(fw_log) :
        /\ LastThreeLow(fw_log[i])
        /\ ~fw_log[i].decision.human_required
        /\ ~fw_log[i].decision.help_request
        /\ fw_log[i].out.human_required
        /\ fw_log[i].out.human_reason = "low_confidence"


\* layer 2 of evaluate changed the decision
BreakerFired(e) == e.out.human_required /\ e.out.human_reason = "low_confidence"

\* C21: when the confidence circuit breaker fires the confidence window is
\* cleared, so it does not fire again in the next two evaluations (3 new low
\* scores are needed)
C21_BreakerClearsWindow ==
    \A i \in 1..Len(fw_log) :
        BreakerFired(fw_log[i]) =>
            /\ (i = Len(fw_log) => conf_window = <<>>)
            /\ \A j \in (i + 1)..Len(fw_log) :
                 j <= i + 2 => ~BreakerFired(fw_log[j])


----------------------------------------------------------------------------
(* Step budget *)

\* LoopTop created a Step and goes on to call the LLM
NewStep == Len(execs') > Len(execs)

\* a Step numbered max_steps + 1 received its decision from the LLM
FinalStepDecided ==
    \E k \in 1..Len(execs) :
        execs[k].seq = MaxSteps + 1 /\ execs[k].status \notin {"running_llm", "failed"}

\* C22: the final-step instruction is injected at most once per Task (no Step
\* numbered above max_steps exists when it is injected), a Step numbered
\* max_steps + 1 whose decision did not complete the Task is followed by no
\* further LLM call, and no Step numbered above max_steps + 1 calls the LLM
C22_StepBudget ==
    [][/\ (pc = "loop_top" /\ ~wrap_up_injected /\ wrap_up_injected')
            => \A k \in 1..Len(execs) : execs[k].seq <= MaxSteps
       /\ NewStep
            => /\ execs'[Len(execs')].seq <= MaxSteps + 1
               /\ ~FinalStepDecided]_vars


----------------------------------------------------------------------------
(* Failures *)

\* C23: when llm.call raises in a step (the coroutine leaves the LLM call for
\* the closing awaits), the Step is marked failed, a Checkpoint with reason
\* "error" is written and the Task is paused; from there run_loop executes no
\* tool and returns with the Task still paused, tools disconnected and the LLM
\* client closed
C23_LLMFailurePauses ==
    [][/\ (pc = "llm" /\ pc' = "closing")
            => /\ execs'[Len(execs')].status = "failed"
               /\ Len(execs') = Len(execs)
               /\ cp'.present /\ cp'.pause_reason = "error"
               /\ status' = "paused"
       /\ (pc = "closing" /\ cp.pause_reason = "error" /\ exit_kind' # "crash")
            => \/ pc' = "closing"
               \/ /\ pc' = "idle"
                  /\ exit_kind' = "return"
                  /\ cleanup_done'
                  /\ status' = "paused"
                  /\ execs' = execs]_vars

C23_Witness ==
    /\ pc = "idle"
    /\ exit_kind = "return"
    /\ cleanup_done
    /\ status = "paused"
    /\ cp.pause_reason = "error"
    /\ execs # <<>>
    /\ execs[Len(execs)].status = "failed"

\* C24: an exception other than cancellation that ends run_loop after the
\* Task was set to running is caught by run_loop: the Task is failed, an
\* "error" Checkpoint is written, the error callback has run (the application
\* forgot the service) and nothing propagates; the Task is not left running
C24_ExceptionCaught ==
    [][(pc # "idle" /\ pc' = "idle" /\ exit_kind' \in {"error", "raised"})
          => /\ exit_kind' = "error"
             /\ status' = "failed"
             /\ cp'.present /\ cp'.pause_reason = "error"
             /\ ~ui_service']_vars

\* the kernel state of two Checkpoints is the same: loop-detection signatures
\* and counters, confidence window, consecutive-stop counter, tool outputs
SameKernelState(a, b) ==
    /\ a.loop_state = b.loop_state
    /\ a.confidence_history = b.confidence_history
    /\ a.consecutive_stops = b.consecutive_stops
    /\ a.last_tool_outputs = b.last_tool_outputs

\* the second Checkpoint of a round trip holds the kernel state of the first
RoundTripKernelState ==
    pc = "rt_resaved" => SameKernelState(cp, call_log[1])

\* C25: a Checkpoint saved, restored into a fresh ExecutionService and saved
\* again has the same loop-detection state, confidence window,
\* consecutive-stop counter, tool-output cache and pending request
C25_RoundTrip ==
    pc = "rt_resaved" =>
        /\ SameKernelState(cp, call_log[1])
        /\ cp.pending_hitl = call_log[1].pending_hitl
        /\ cp.pending_tool_confirm = call_log[1].pending_tool_confirm

----------------------------------------------------------------------------
(* Auto-escalation *)

\* the call is a should_escalate that returned "approve"
Escalated(e) == e.op = "should_escalate" /\ e.result = "approve"

\* the rejections of the tool recorded among the first i calls since its last
\* recorded approval
RECURSIVE TrailingRejects(_, _)
TrailingRejects(i, tool) ==
    IF i = 0 THEN 0
    ELSE LET e == call_log[i]
         IN IF e.op = "record_approval" /\ e.tool = tool
            THEN IF e.approved THEN 0 ELSE 1 + TrailingRejects(i - 1, tool)
            ELSE TrailingRejects(i - 1, tool)

\* the rejections of the tool recorded after call i and up to call j
RejectsBetween(i, j, tool) ==
    Cardinality({k \in (i + 1)..j :
                    /\ call_log[k].op = "record_approval"
                    /\ call_log[k].tool = tool
                    /\ ~call_log[k].approved})

\* C26: once should_escalate has fired for a tool, the consecutive-reject
\* counter of the tool is 0, and it fires again for the tool only after three
\* more rejections of it
C26_EscalationResetsCounter ==
    \A i \in 1..Len(call_log) :
        Escalated(call_log[i]) =>
            /\ call_log[i].rejects[call_log[i].tool] = 0
            /\ \A j \in (i + 1)..Len(call_log) :
                 Escalated(call_log[j]) /\ call_log[j].tool = call_log[i].tool
                    => RejectsBetween(i, j, call_log[i].tool) >= AutoEscalateThreshold

\* C27: should_escalate(tool) returns "approve" and sets the user layer entry
\* of the tool to approve exactly when the tool has at least three consecutive
\* rejections; otherwise it returns None and the policy store is as before
C27_EscalateAtThreshold ==
    \A i \in 1..Len(call_log) :
        LET e == call_log[i]
        IN e.op = "should_escalate" =>
              IF TrailingRejects(i - 1, e.tool) >= 3
              THEN /\ e.result = "approve"
                   /\ e.tool \in DOMAIN e.after /\ e.after[e.tool] = "approve"
                   /\ \A t \in DOMAIN e.after \ {e.tool} :
                        t \in DOMAIN e.before /\ e.after[t] = e.before[t]
              ELSE /\ e.result = "None"
                   /\ e.after = e.before

\* three rejections, then an escalation; and a call below the threshold
C27_Witness ==
    \E i, j \in 1..Len(call_log) :
        /\ Escalated(call_log[i])
        /\ TrailingRejects(i - 1, call_log[i].tool) = 3
        /\ call_log[j].op = "should_escalate"
        /\ call_log[j].result = "None"
        /\ TrailingRejects(j - 1, call_log[j].tool) = 2

----------------------------------------------------------------------------
(* Reads outside the readable directories *)

\* tool calls, each with whether its "path" names a place outside the working
\* directory and the output directory (readable_paths is ["output/", "."])
PermissionCalls ==
    {[tool |-> t, args |-> [k \in {"path"} |-> StrVal(q.segs)], outside |-> q.outside] :
        t \in {"file_read", "file_list", "file_write", "search"},
        q \in {[segs |-> <<"notes.txt">>, outside |-> FALSE],
               [segs |-> <<"data", "output", "a.md">>, outside |-> FALSE],
               [segs |-> <<"docs", "..", "notes.txt">>, outside |-> FALSE],
               [segs |-> <<"..", "secrets.txt">>, outside |-> TRUE],
               [segs |-> <<"docs", "..", "..", "etc", "passwd">>, outside |-> TRUE],
               [segs |-> <<"", "etc", "passwd">>, outside |-> TRUE]}}
    \cup {[tool |-> t, args |-> NoArgs, outside |-> FALSE] :
              t \in {"file_read", "file_list", "file_write", "search"}}

\* C28: a file_read or file_list call whose path lies outside every readable
\* directory needs approval whatever the permission of the tool, and every
\* call of a tool whose effective permission is confirm or approve needs
\* approval
C28_OutsideReadsNeedApproval ==
    pc = "policy" =>
        \A c \in PermissionCalls :
            LET tc == [tool |-> c.tool, args |-> c.args]
                na == check_tool_permission(admin_permissions, user_overrides,
                                            mcp_tools, tc)
                rank == Max2(AdminRank(c.tool), UserRank(c.tool))
            IN /\ (c.tool \in {"file_read", "file_list"} /\ c.outside) => na
               /\ rank >= 2 => na

\* file_read is at auto or notify: a read outside needs approval, a read
\* inside does not
C28_Witness ==
    /\ pc = "policy"
    /\ user_overrides # NoOverrides
    /\ Max2(AdminRank("file_read"), UserRank("file_read")) <= 1
    /\ \E c, e \in PermissionCalls :
         /\ c.tool = "file_read" /\ c.outside
         /\ check_tool_permission(admin_permissions, user_overrides, mcp_tools,
                                   [tool |-> c.tool, args |-> c.args])
         /\ e.tool = "file_read" /\ e.args # NoArgs /\ ~e.outside
         /\ ~check_tool_permission(admin_permissions, user_overrides, mcp_tools,
                                    [tool |-> e.tool, args |-> e.args])

----------------------------------------------------------------------------
(* The confidence window *)

\* C29: after n calls of record_confidence the window holds the last
\* min(n, 10) scores recorded, in the order recorded, and never more than 10
C29_WindowIsLastTen ==
    pc = "confidence" =>
        LET n == Len(call_log)
            m == IF n < 10 THEN n ELSE 10
        IN /\ Len(conf_window) = m
           /\ Len(conf_window) <= 10
           /\ \A i \in 1..m : conf_window[i] = call_log[n - m + i]

\* more than ten scores were recorded and the oldest one, which differs from
\* the second, has left the window
C29_Witness ==
    /\ pc = "confidence"
    /\ Len(call_log) > 10
    /\ call_log[1] # call_log[2]
    /\ conf_window[1] = call_log[2]

----------------------------------------------------------------------------
(* Repeated tool outputs *)

\* two calls have the same tool and, as dicts, the same arguments
SameCall(a, b) == a.tool = b.tool /\ Range(a.args) = Range(b.args)

\* the calls before call i with its tool and arguments
EarlierSame(i) == {j \in 1..(i - 1) : SameCall(call_log[j], call_log[i])}

\* C30: detect_repeat answers None when no earlier call had the same tool and
\* the same arguments (whatever the order of the keys), SAME when the output
\* equals that of the latest such call and CHANGED otherwise; calls with
\* other arguments have no part in the answer
C30_RepeatKeyedByToolAndArgs ==
    \A i \in 1..Len(call_log) :
        IF EarlierSame(i) = {} THEN call_log[i].note = "None"
        ELSE LET last == CHOOSE j \in EarlierSame(i) :
                            \A k \in EarlierSame(i) : k <= j
             IN call_log[i].note =
                    IF call_log[i].result = call_log[last].result
                    THEN "SAME" ELSE "CHANGED"

\* a call, a call of the same tool with other arguments and another output,
\* then the first call again with its keys in another order: SAME
C30_Witness ==
    /\ Len(call_log) = 3
    /\ call_log[1].tool = call_log[2].tool
    /\ SameCall(call_log[1], call_log[3])
    /\ call_log[1].args # call_log[3].args
    /\ ~SameCall(call_log[1], call_log[2])
    /\ call_log[2].result # call_log[1].result
    /\ call_log[2].note = "None"
    /\ call_log[3].result = call_log[1].result
    /\ call_log[3].note = "SAME"

----------------------------------------------------------------------------
(* Classification of tool results *)

\* the value under a key is the given str
HasStr(r, k, text) == k \in DOMAIN r /\ r[k] = StrVal(text)

\* the output of the result (its "content" when it has no "output") is
\* missing, None, empty or made of spaces only
BlankOutput(r) ==
    LET k == IF "output" \in DOMAIN r THEN "output" ELSE "content"
    IN \/ k \notin DOMAIN r
       \/ ~r[k].is_str
       \/ \A i \in 1..Len(r[k].segs) : r[k].segs[i] = " "

\* the body has an "error" key or a value "error"
ErrorShaped(r) == "error" \in DOMAIN r \/ \E k \in DOMAIN r : r[k] = StrVal(<<"error">>)

\* C31: classify_result gives error for status error; for status ok, empty
\* when the output is missing, empty or blank and success otherwise; for any
\* other status, error when the body is error-shaped and partial otherwise
C31_ClassifyResult ==
    \A i \in 1..Len(call_log) :
        LET r == call_log[i].result
        IN call_log[i].class =
              IF HasStr(r, "status", <<"error">>) THEN "error"
              ELSE IF HasStr(r, "status", <<"ok">>)
                   THEN IF BlankOutput(r) THEN "empty" ELSE "success"
              ELSE IF ErrorShaped(r) THEN "error" ELSE "partial"

\* status ok with an output of spaces only was classified empty
C31_Witness ==
    /\ call_log # <<>>
    /\ HasStr(call_log[1].result, "status", <<"ok">>)
    /\ HasStr(call_log[1].result, "output", <<" ", " ", " ">>)
    /\ call_log[1].class = "empty"

----------------------------------------------------------------------------
(* A tripped loop detection *)

\* proposal i of ToolEvals is at a threshold of loop detection
AtLoopThreshold(i) ==
    \/ ExactRepeats(i) >= (IF Confident(ToolEvals[i]) THEN 2 ELSE 1)
    \/ NameRepeats(i) >= (IF Confident(ToolEvals[i]) THEN 3 ELSE 2)

LoopTripWaitsForHuman ==
    [][/\ (pc = "llm" /\ verdict' = "needs_human" /\ decision'.human_reason = "loop")
           => pc' = "hitl"
       /\ (pc = "hitl" /\ decision.human_reason = "loop")
           => pc' \in {"hitl", "wait_hitl", "idle"}
       /\ (pc = "wait_hitl" /\ decision.human_reason = "loop" /\ pc' # "wait_hitl")
           => \/ /\ ui_service
                 /\ execs[Len(execs)].status = "awaiting_human"
                 /\ execs'[Len(execs')].status \in {"approved", "rejected"}
              \/ pc' = "idle"
              \/ runs' > runs]_vars

\* a run_loop coroutine waits for a human after loop detection tripped
LoopTripWaiting == pc = "wait_hitl" /\ decision.human_reason = "loop"

----------------------------------------------------------------------------
(* Responses between two stop requests *)

\* run_loop consumed the answer to a tool confirmation
ToolAnswerConsumed == pc = "wait_tool" /\ pc' \in {"exec_tool", "tools"}

\* run_loop consumed an answer to a human-required decision that
\* parse_intent did not read as a stop request
HitlNonAbortConsumed == pc = "wait_hitl" /\ pc' = "finish"

\* C33: every consumed response that is not an abort, to a human-required
\* decision or to a tool confirmation, leaves the consecutive-stop counter
\* of HumanGate at zero, so that a stop request after it is a graceful abort
C33_NonAbortResetsStops ==
    [][(ToolAnswerConsumed \/ HitlNonAbortConsumed) => consecutive_stops' = 0]_vars

\* the part of C33 the code keeps: answers parsed by parse_intent
HitlNonAbortResetsStops ==
    [][HitlNonAbortConsumed => consecutive_stops' = 0]_vars

----------------------------------------------------------------------------
(* One run_loop per Task *)

\* C34: at most one run_loop coroutine is live for the Task: no coroutine is
\* left suspended in a human wait beside the run that is executing
C34_SingleLoop == ~(orphan_waits # {} /\ pc # "idle")

----------------------------------------------------------------------------
(* Approval statistics over the life of a Task *)

\* C35: the consecutive-reject counts of PerceptionStats change only in a
\* step that records an approval or a rejection (record_approval): a pause
\* and a resume of the Task leave them at their values
C35_RejectsChangeOnlyByRecord ==
    [][consecutive_rejects' # consecutive_rejects => ToolAnswerConsumed]_vars

\* rejections were counted in a run of the Task that has ended
RejectsCountedAtRest ==
    /\ pc = "idle"
    /\ \E t \in Tools : consecutive_rejects[t] > 0

----------------------------------------------------------------------------
(* Loop detection across subtasks *)

\* the step of run_loop ends and the loop goes on to its next iteration
StepEndsForNext == pc # "loop_top" /\ pc' = "loop_top" /\ step_number' = step_number

\* C36: a step whose decision has subtask_complete set ends with the
\* signatures and both repeat counters of loop detection at their initial
\* values, so the next step is evaluated against a clean state
C36_SubtaskResetsLoopState ==
    [][(StepEndsForNext /\ decision.subtask_complete) => loop_state' = InitLoopState]_vars

\* C36 for the steps that reach the subtask branch: a step with
\* subtask_complete set that runs to its completion check hands a clean
\* loop-detection state to the iteration that follows it
C36_CompletedSubtaskResetsLoopState ==
    [][(pc = "complete_check" /\ decision.subtask_complete /\ pc' = "loop_top")
          => loop_state' = InitLoopState]_vars

\* a step that proposed tool calls (loop detection recorded them) and set
\* subtask_complete is at its completion check with loop detection reset
C36_Witness ==
    /\ pc = "complete_check"
    /\ decision.subtask_complete
    /\ decision.tool_calls # <<>>
    /\ loop_state = InitLoopState

----------------------------------------------------------------------------
(* Answers to a tool confirmation *)

\* C38: the tool call awaiting confirmation goes on to sandbox_args and
\* tools.execute only when the answer consumed is an approval, and an answer
\* that is neither an approval nor a rejection is not recorded as an approval
\* (it does not clear the consecutive rejections of the tool)
C38_ExecuteOnlyOnApproval ==
    [][ToolAnswerConsumed =>
          /\ pc' = "exec_tool" => human'.decision = "approve"
          /\ human'.decision \notin {"approve", "reject"} =>
                \A t \in Tools : consecutive_rejects'[t] >= consecutive_rejects[t]]_vars

\* the part of C38 the code keeps: a rejected tool call is not executed
RejectedToolNotExecuted ==
    [][(ToolAnswerConsumed /\ human'.decision = "reject") => pc' = "tools"]_vars

----------------------------------------------------------------------------
(* The two policy layers under approvals, escalations and overrides *)

MaxRejects == 3

\* config.tool_permissions of the runs: the shipped default, a tool the
\* administrator set to approve, and a lax layer
LayerConfigs ==
    { ConfigToolPermissions,
      [k \in {"file_write", "default"} |->
          IF k = "file_write" THEN "approve" ELSE "confirm"],
      [k \in {"file_write", "default", "mcp_default"} |->
          IF k = "file_write" THEN "auto" ELSE "notify"] }

InitLayers ==
    /\ RestOfInit
    /\ KernelHarnessOff
    /\ admin_permissions \in LayerConfigs
    /\ user_overrides = NoOverrides
    /\ mcp_tools \in {{}, McpToolNames}
    /\ pc = "layers"
    /\ pd_text = ProseText
    /\ pd_result = [raised |-> FALSE, decision |-> DefaultDecision]

\* bus.record_approval(tool, approved, elapsed)
LayersRecordApproval ==
    /\ pc = "layers"
    /\ \E tool \in EscTools, approved \in BOOLEAN :
         /\ approved \/ consecutive_rejects[tool] < MaxRejects
         /\ consecutive_rejects' = record_approval(consecutive_rejects, tool, approved)
    /\ approvals_recorded' = TRUE
    /\ UNCHANGED <<taskVars, loopVars, conf_window, loop_state, consecutive_stops,
                   policyVars, uiVars, exitVars, harnessVars>>

\* engine.should_escalate(tool)
LayersShouldEscalate ==
    /\ pc = "layers"
    /\ \E tool \in EscTools :
         user_overrides' =
            should_escalate(consecutive_rejects, user_overrides, tool).user_overrides
    /\ UNCHANGED <<taskVars, loopVars, kernelVars, admin_permissions, mcp_tools,
                   uiVars, exitVars, harnessVars>>

\* policy.override_user_permission(tool_name, level)
LayersOverrideUserPermission ==
    /\ pc = "layers"
    /\ \E tool \in EscTools, level \in Levels :
         user_overrides' = override_user_permission(user_overrides, tool, level)
    /\ UNCHANGED <<taskVars, loopVars, kernelVars, admin_permissions, mcp_tools,
                   uiVars, exitVars, harnessVars>>

NextLayers ==
    \/ LayersRecordApproval
    \/ LayersShouldEscalate
    \/ LayersOverrideUserPermission

SpecLayers == InitLayers /\ [][NextLayers]_vars

\* the effective permission of every tool is at least as strict as the level
\* the admin layer resolves for it
EffectiveAtLeastAdmin ==
    \A tool \in Tools :
        PERMISSION_ORDER(get_permission(admin_permissions, user_overrides,
                                        mcp_tools, tool))
          >= PERMISSION_ORDER(resolve_admin(admin_permissions, mcp_tools, tool))

\* C37: under every sequence of record_approval, should_escalate and
\* override_user_permission calls the admin layer keeps the value it was
\* constructed with, and the effective permission of every tool stays at
\* least as strict as its admin-layer level
C37_AdminLayerIsFloor ==
    /\ []EffectiveAtLeastAdmin
    /\ [][admin_permissions' = admin_permissions]_vars

\* one tool was escalated to approve after MaxRejects rejections, and the
\* user layer holds a level below the admin level for a tool
C37_Witness ==
    /\ \E tool \in EscTools :
         /\ consecutive_rejects[tool] >= AutoEscalateThreshold
         /\ resolve_user(user_overrides, tool) = "approve"
         /\ resolve_admin(admin_permissions, mcp_tools, tool) # "approve"
    /\ \E tool \in EscTools :
         /\ resolve_user(user_overrides, tool) # Absent
         /\ PERMISSION_ORDER(resolve_user(user_overrides, tool))
              < PERMISSION_ORDER(resolve_admin(admin_permissions, mcp_tools, tool))

----------------------------------------------------------------------------
(* Loop detection across steps without tool calls *)

\* the evaluation just logged was of a decision that proposes no tool call
ToolFreeEvaluated ==
    /\ Len(fw_log') = Len(fw_log) + 1
    /\ fw_log'[Len(fw_log')].decision.tool_calls = <<>>

\* evaluations i < j propose the same tool calls and every evaluation
\* between them proposes none
SeparatedByToolFree(i, j) ==
    /\ i < j
    /\ fw_log[i].decision.tool_calls # <<>>
    /\ fw_log[j].decision.tool_calls = fw_log[i].decision.tool_calls
    /\ \A k \in (i + 1)..(j - 1) : fw_log[k].decision.tool_calls = <<>>

\* the evaluation of a decision without tool calls leaves the signatures and
\* counters of loop detection as they were, so a proposal that equals the
\* last proposal before a run of tool-free evaluations is counted as its
\* repeat
ToolFreeEvaluationKeepsLoopState ==
    /\ [][ToolFreeEvaluated => loop_state' = loop_state]_vars
    /\ [](\A i \in 1..Len(fw_log) :
             SeparatedByToolFree(i, Len(fw_log)) =>
                 /\ loop_state.repeat_count >= 1
                 /\ loop_state.name_repeat_count >= 1)

\* the same proposal twice with a tool-free evaluation between, counted as
\* a repeat
SeparatedRepeatCounted ==
    /\ Len(fw_log) >= 3
    /\ SeparatedByToolFree(Len(fw_log) - 2, Len(fw_log))
    /\ loop_state.repeat_count >= 1

\* positions of run_loop after the evaluation of the decision of a step
StepPcs == {"tools", "wait_tool", "exec_tool", "hitl", "wait_hitl", "finish",
            "reflect", "post_reflect", "subtask", "complete_check"}

\* the decision of a step as the LLM proposed it has no tool call (the tool
\* calls were not cleared by loop detection)
ToolFree(dec) == dec.tool_calls = <<>> /\ dec.human_reason # "loop"

\* a transition of the running coroutine that belongs to a step whose
\* decision proposes no tool call: its evaluation, or a later part of the step
ToolFreeStepMoves ==
    /\ runs' = runs
    /\ \/ pc = "llm" /\ pc' = "hitl" /\ ToolFree(decision')
       \/ pc \in StepPcs /\ ToolFree(decision)

\* C39: a step whose decision proposes no tool calls leaves the signatures
\* and counters of loop detection unchanged
C39_ToolFreeStepKeepsLoopState ==
    [][ToolFreeStepMoves => loop_state' = loop_state]_vars

\* C39 but for the subtask branch: a step whose decision proposes no tool
\* calls changes the state of loop detection only where it closes a subtask
C39_ToolFreeStepKeepsLoopStateButSubtask ==
    [][(ToolFreeStepMoves /\ pc # "subtask") => loop_state' = loop_state]_vars

\* a tool-free step that closes no subtask has run to its completion check
\* with the proposal of an earlier step still recorded
C39_Witness ==
    /\ pc = "complete_check"
    /\ ToolFree(decision)
    /\ ~decision.subtask_complete
    /\ loop_state # InitLoopState

----------------------------------------------------------------------------
(* Termination of a run *)

\* the statuses run_loop leaves a Task in when it exits
ExitStatuses == {"paused", "completed", "aborted", "failed"}

\* run_loop ended by itself: a return or an exception, no cancellation and
\* no end of the process
RunExitsByItself ==
    pc # "idle" /\ pc' = "idle" /\ exit_kind' \in {"return", "error", "raised"}

\* an iteration of the loop goes on to its LLM call
IterationStarts == pc = "loop_top" /\ pc' = "llm"

\* C40 (what holds in every step of a behaviour): a run that ends by itself
\* leaves the Task paused, completed, aborted or failed; every iteration
\* raises the step number by one, and no iteration that calls the LLM is
\* numbered above max_steps + 1
C40_RunExitsInFinalStatus ==
    [][/\ RunExitsByItself => status' \in ExitStatuses
       /\ IterationStarts => /\ step_number' = step_number + 1
                             /\ step_number' <= MaxSteps + 1]_vars

\* the parts of C40 taken one by one
ExitStatusFinal == [][RunExitsByItself => status' \in ExitStatuses]_vars
StepNumberIncreases == [][IterationStarts => step_number' = step_number + 1]_vars
StepNumberBounded == [][IterationStarts => step_number' <= MaxSteps + 1]_vars

\* a step of the run_loop coroutine: the awaited call (tools.connect, the
\* planning phase, llm.call, tools.execute, wait_for_human, llm.reflect, the
\* closing awaits) has returned or raised and the code up to the next await
\* has run
RunLoopStep ==
    \/ ConnectDone
    \/ PlanningDone
    \/ PlanningRaise
    \/ ResumeInject
    \/ LoopTop
    \/ LLMReturn
    \/ LLMFail
    \/ ToolDispatch
    \/ ToolHumanResponse
    \/ ToolReturn
    \/ ToolRaise
    \/ HitlDispatch
    \/ HitlResponse
    \/ Finish
    \/ ReflectDone
    \/ PostReflect
    \/ SubtaskDone
    \/ CompleteCheck
    \/ CloseDone

\* the run loop under the assumption that every awaited call comes back: the
\* event loop resumes a coroutine whose await is done
SpecLive == Init /\ [][Next]_vars /\ WF_vars(RunLoopStep)

\* a human wait no answer can reach: the application has forgotten the service
WaitUnanswerable == pc \in HumanWaits /\ ~ui_service

\* the head of an iteration the bounds of this model do not let start
AtModelCap ==
    /\ pc = "loop_top"
    /\ ~(MaxSteps > 0 /\ step_number + 1 > MaxSteps + 1 /\ wrap_up_injected)
    /\ Len(execs) >= MaxExecs \/ Len(execs) + runs >= MaxWork

\* a run whose awaited calls all come back ends: it returns, raises, is
\* cancelled or is replaced
RunTerminates == (pc # "idle") ~> (pc = "idle" \/ WaitUnanswerable \/ AtModelCap)

\* the first run of a Task ends before the bounds of the model are met
FirstRunNotCapped == runs = 1 => ~AtModelCap

====
